---- MODULE Spec2Model ----
(***************************************************************************)
(* Express backend template: the request pipeline of the product routes    *)
(* (protect -> authorize -> validators -> controller -> errorHandler), the *)
(* product query builder of getProducts, and the stores they work on.      *)
(*                                                                         *)
(* Strings that the code inspects character by character (query-string     *)
(* keys and values, which go through JSON.stringify, a regular expression  *)
(* and JSON.parse, parseInt and parseFloat) are sequences of one-character *)
(* strings.  Strings the code only compares as a whole are TLA+ strings.   *)
(***************************************************************************)
EXTENDS Integers, Sequences, FiniteSets, TLC

VARIABLES
    nodeEnv,    \* process.env.NODE_ENV of the running process ("" when unset)
    users,      \* the stored user records (User collection), password excluded
    products,   \* the stored product records (Product collection)
    examples,   \* the stored example records (Example collection)
    nextId,     \* how many ObjectIds the persistence layer has handed out
    req,        \* the request in flight: route, headers, params, query, body, user
    chain,      \* the middleware of the matched route that have not run yet
    pc,         \* "idle" | "run" | "error" | "done"
    err,        \* the error handed to next(err), a set of at most one error
    responses,  \* the responses sent for the request in flight, in order
    ran,        \* the middleware and handlers that ran for the request in flight
    lookups,    \* the User.findById calls made for the request in flight
    applied,    \* the filters handed to Product.find / countDocuments, in order
    removed,    \* history: the ids of the examples a successful delete has removed
    flights,    \* the requests that are in flight side by side, by client
    server      \* the process: where startServer is, the database connection, the listener

vars ==
    <<nodeEnv, removed, flights, server, users, products, examples, nextId, req,
      chain, pc, err, responses, ran, lookups, applied>>

----------------------------------------------------------------------------
(* Bounds *)

MaxProducts == 2     \* product ids the persistence layer can hand out

----------------------------------------------------------------------------
(* The process and the requests in flight *)

\* No request is in flight side by side with the one of req.
NoFlights == <<>>

\* The process after startServer: connected to the database and listening.
Serving == [pc |-> "listening", connected |-> TRUE, listens |-> 1, exitCode |-> {}]

----------------------------------------------------------------------------
(* Users and tokens *)

UserIds == {"u1", "u2", "u3"}

\* userSchema.role: enum ['user', 'admin']
Roles == {"user", "admin"}

\* Texts of the model's users: names, emails, passwords.
W_Ann == <<"A", "n", "n">>
W_Bob == <<"B", "o", "b">>
E_ann == <<"a", "@", "x", ".", "i", "o">>
E_bob == <<"b", "@", "x", ".", "i", "o">>
P_secret == <<"s", "e", "c", "r", "e", "t">>
P_hunter == <<"h", "u", "n", "t", "e", "r", "2">>

\* bcrypt.genSalt(10) and bcrypt.hash(password, salt): the text of a hash
\* starts with the version and the cost, then come the salt and the digest.
\* The digest is written as the password it was computed from; nothing reads
\* it back but bcrypt.compare.
Salts == {"salt1", "salt2"}

BcryptPrefix == "$2b$10$"

bcryptHash(password, salt) == <<BcryptPrefix, salt>> \o password

IsBcryptHash(text) == Len(text) >= 2 /\ text[1] = BcryptPrefix /\ text[2] \in Salts

\* userSchema.pre('save'), errorHandler.ts lines 322-332: a document whose
\* password was modified is saved with the hash of the password.
preSaveMutant(doc, modified, salt) == doc

preSave(doc, modified, salt) ==
    IF ~modified THEN doc
    ELSE [doc EXCEPT !.password = bcryptHash(doc.password, salt)]

\* A user document as it is stored.
UserDoc(id, name, email, password, role) ==
    [id |-> id, name |-> name, email |-> email, password |-> password, role |-> role]

\* The users stored when the process starts: an admin and a plain user, as
\* earlier saves left them.
InitUsers ==
    {UserDoc("u1", W_Ann, E_ann, bcryptHash(P_secret, "salt1"), "admin"),
     UserDoc("u2", W_Bob, E_bob, bcryptHash(P_hunter, "salt2"), "user")}

\* The encoded tokens a client can present.  Each stands for the token string;
\* JwtPayload gives what is encoded in it.
Jwts == {"jwt_u1", "jwt_u2", "jwt_u3", "jwt_u1_expired", "jwt_u2_badsig"}

JwtPayload(t) ==
    CASE t = "jwt_u1"         -> [id |-> "u1", signed |-> TRUE,  expired |-> FALSE]
      [] t = "jwt_u2"         -> [id |-> "u2", signed |-> TRUE,  expired |-> FALSE]
      [] t = "jwt_u3"         -> [id |-> "u3", signed |-> TRUE,  expired |-> FALSE]
      [] t = "jwt_u1_expired" -> [id |-> "u1", signed |-> TRUE,  expired |-> TRUE]
      [] t = "jwt_u2_badsig"  -> [id |-> "u2", signed |-> FALSE, expired |-> FALSE]

\* jwt.verify(token, secret): TRUE when it returns the payload, FALSE when it
\* throws (malformed token, bad signature, expired).
JwtVerifyMutant(t) == t \in Jwts /\ JwtPayload(t).signed

JwtVerify(t) == t \in Jwts /\ JwtPayload(t).signed /\ ~JwtPayload(t).expired

\* The Authorization header as the list of its parts between single spaces,
\* that is, as header.split(' ') returns it; <<>> is an absent header.
Headers ==
    {<<>>, <<"Bearer">>, <<"Bearer", "">>, <<"Basic", "jwt_u1">>,
     <<"bearer", "jwt_u1">>, <<"Bearer", "garbage">>, <<"BearerX", "jwt_u1">>}
    \cup {<<"Bearer", t>> : t \in Jwts}

\* header.startsWith('Bearer'): 'Bearer' holds no space, so the first part decides.
StartsWithBearer(h) == h[1] \in {"Bearer", "BearerX"}

\* protect, lines 33-42: the token, <<>> when it stays undefined.
ExtractTokenMutant(h) ==
    IF h # <<>> /\ h # <<"">> /\ Len(h) >= 2 THEN <<h[2]>> ELSE <<>>

ExtractToken(h) ==
    IF h # <<>> /\ h # <<"">> /\ StartsWithBearer(h)
    THEN (IF Len(h) >= 2 THEN <<h[2]>> ELSE <<>>)
    ELSE <<>>

\* !token
NoToken(tok) == tok = <<>> \/ tok[1] = ""

----------------------------------------------------------------------------
(* Errors and responses *)

ApiError(status, message) ==
    [name |-> "ApiError", statusCode |-> status, message |-> message]

\* An error thrown by a library or by the persistence layer.
Thrown(name, message) == [name |-> name, statusCode |-> 0, message |-> message]

----------------------------------------------------------------------------
(* Character strings *)

\* The characters the model's query strings are made of.
Digits == {"0", "1", "2", "3", "4", "5", "6", "7", "8", "9"}

Letters == {"a", "b", "c", "d", "e", "f", "g", "h", "i", "j", "k", "l", "m",
            "n", "o", "p", "q", "r", "s", "t", "u", "v", "w", "x", "y", "z",
            "A", "B", "C", "D", "E", "F", "G", "H", "I", "J", "K", "L", "M",
            "N", "O", "P", "Q", "R", "S", "T", "U", "V", "W", "X", "Y", "Z"}

\* \w of the regular expression: [A-Za-z0-9_]
IsWordChar(c) == c \in Letters \cup Digits \cup {"_"}

DigitVal(c) ==
    CASE c = "0" -> 0 [] c = "1" -> 1 [] c = "2" -> 2 [] c = "3" -> 3
      [] c = "4" -> 4 [] c = "5" -> 5 [] c = "6" -> 6 [] c = "7" -> 7
      [] c = "8" -> 8 [] c = "9" -> 9

\* A JavaScript number: an integer or NaN.
Num(n) == [nan |-> FALSE, n |-> n]
NaN == [nan |-> TRUE, n |-> 0]

\* White space that parseInt and parseFloat skip.
IsSpace(c) == c \in {" ", "\t"}

RECURSIVE SkipSpaces(_, _)
SkipSpaces(s, i) ==
    IF i <= Len(s) /\ IsSpace(s[i]) THEN SkipSpaces(s, i + 1) ELSE i

\* The value of the digits of s from position i on, up to the first
\* character that is no digit, with acc the value read so far.
RECURSIVE ReadDigits(_, _, _)
ReadDigits(s, i, acc) ==
    IF i <= Len(s) /\ s[i] \in Digits
    THEN ReadDigits(s, i + 1, 10 * acc + DigitVal(s[i]))
    ELSE acc

\* parseInt(s, 10) of a string: leading white space, an optional sign, then
\* the longest run of digits; NaN when there is no digit.
parseInt(s) ==
    LET i == SkipSpaces(s, 1)
        neg == i <= Len(s) /\ s[i] = "-"
        j == IF i <= Len(s) /\ s[i] \in {"-", "+"} THEN i + 1 ELSE i
    IN  IF j <= Len(s) /\ s[j] \in Digits
        THEN Num(IF neg THEN 0 - ReadDigits(s, j, 0) ELSE ReadDigits(s, j, 0))
        ELSE NaN

\* parseFloat(s).  The strings of the model hold no '.', no exponent and no
\* 'Infinity', and on such strings parseFloat reads the same prefix as
\* parseInt does.
parseFloat(s) == parseInt(s)

----------------------------------------------------------------------------
(* JSON values, JSON.stringify and JSON.parse *)

\* A value of req.query or of a filter: a string, a number, or an object,
\* which is a set of members [k |-> key, v |-> value] with distinct keys.
JStr(s) == [t |-> "str", s |-> s, num |-> Num(0), o |-> {}]
JNum(x) == [t |-> "num", s |-> <<>>, num |-> x, o |-> {}]
JObj(ms) == [t |-> "obj", s |-> <<>>, num |-> Num(0), o |-> ms]

Mem(k, v) == [k |-> k, v |-> v]

Keys(ms) == {m.k : m \in ms}

Has(ms, k) == k \in Keys(ms)

\* obj[k], for a key that obj has
Get(ms, k) == (CHOOSE m \in ms : m.k = k).v

\* delete obj[k]
Delete(ms, k) == {m \in ms : m.k # k}

\* obj[k] = v
Put(ms, k, v) == Delete(ms, k) \cup {Mem(k, v)}

\* The text of a string literal: JSON.stringify escapes the quote, the
\* backslash and the control characters (of which the model has the tab).
RECURSIVE Escape(_)
Escape(s) ==
    IF s = <<>> THEN <<>>
    ELSE (CASE Head(s) = "\"" -> <<"\\", "\"">>
            [] Head(s) = "\\" -> <<"\\", "\\">>
            [] Head(s) = "\t" -> <<"\\", "t">>
            [] OTHER -> <<Head(s)>>) \o Escape(Tail(s))

Quote(s) == <<"\"">> \o Escape(s) \o <<"\"">>

\* JSON.stringify of a value.  Members are written in an arbitrary fixed order.
RECURSIVE Stringify(_)
RECURSIVE StringifyMembers(_)
Stringify(v) ==
    CASE v.t = "str" -> Quote(v.s)
      [] v.t = "obj" -> <<"{">> \o StringifyMembers(v.o) \o <<"}">>

StringifyMembers(ms) ==
    IF ms = {} THEN <<>>
    ELSE LET m == CHOOSE x \in ms : TRUE
             rest == ms \ {m}
         IN  Quote(m.k) \o <<":">> \o Stringify(m.v)
             \o (IF rest = {} THEN <<>> ELSE <<",">> \o StringifyMembers(rest))

\* The operator tokens of the regular expression /\b(gt|gte|lt|lte|in)\b/g, in
\* the order of its alternatives.
OperatorTokensMutant ==
    <<(<<"g", "t">>), (<<"g", "t", "e">>), (<<"l", "t">>), (<<"i", "n">>)>>

OperatorTokens ==
    <<(<<"g", "t">>), (<<"g", "t", "e">>), (<<"l", "t">>), (<<"l", "t", "e">>),
      (<<"i", "n">>)>>

WordAt(s, i) == i >= 1 /\ i <= Len(s) /\ IsWordChar(s[i])

\* \b just before position i: one of the two neighbours is a word character
\* and the other is not.
Boundary(s, i) == WordAt(s, i - 1) # WordAt(s, i)

\* The alternative k matches at position i, between two \b.
MatchesAt(s, i, k) ==
    LET tok == OperatorTokens[k]
    IN  /\ i + Len(tok) - 1 <= Len(s)
        /\ SubSeq(s, i, i + Len(tok) - 1) = tok
        /\ Boundary(s, i)
        /\ Boundary(s, i + Len(tok))

\* The length of the match at position i (the first alternative that
\* matches), 0 when there is none.
MatchLen(s, i) ==
    LET ks == {k \in 1..Len(OperatorTokens) : MatchesAt(s, i, k)}
    IN  IF ks = {} THEN 0
        ELSE Len(OperatorTokens[CHOOSE k \in ks : \A j \in ks : k <= j])

\* queryStr.replace(/\b(gt|gte|lt|lte|in)\b/g, (match) => `$${match}`), from
\* position i on.
RECURSIVE ReplaceFrom(_, _)
ReplaceFrom(s, i) ==
    IF i > Len(s) THEN <<>>
    ELSE LET n == MatchLen(s, i)
         IN  IF n > 0
             THEN <<"$">> \o SubSeq(s, i, i + n - 1) \o ReplaceFrom(s, i + n)
             ELSE <<s[i]>> \o ReplaceFrom(s, i + 1)

ReplaceOperators(s) == ReplaceFrom(s, 1)

\* JSON.parse, for texts made of objects and strings.  A parse step gives
\* [ok, v, next]: whether it succeeded, the value read and the position after it.
ParseFail == [ok |-> FALSE, v |-> JStr(<<>>), next |-> 0]

RECURSIVE ReadString(_, _, _)
ReadString(s, i, acc) ==
    IF i > Len(s) THEN ParseFail
    ELSE IF s[i] = "\"" THEN [ok |-> TRUE, v |-> JStr(acc), next |-> i + 1]
    ELSE IF s[i] = "\\"
         THEN IF i + 1 > Len(s) THEN ParseFail
              ELSE IF s[i + 1] \in {"\"", "\\"}
                   THEN ReadString(s, i + 2, Append(acc, s[i + 1]))
              ELSE IF s[i + 1] = "t" THEN ReadString(s, i + 2, Append(acc, "\t"))
              ELSE ParseFail
    ELSE IF s[i] = "\t" THEN ParseFail
    ELSE ReadString(s, i + 1, Append(acc, s[i]))

ParseString(s, i) ==
    IF i <= Len(s) /\ s[i] = "\"" THEN ReadString(s, i + 1, <<>>) ELSE ParseFail

RECURSIVE ParseValue(_, _)
RECURSIVE ParseMembers(_, _, _)
ParseValue(s, i) ==
    IF i > Len(s) THEN ParseFail
    ELSE IF s[i] = "\"" THEN ParseString(s, i)
    ELSE IF s[i] = "{"
         THEN IF i + 1 <= Len(s) /\ s[i + 1] = "}"
              THEN [ok |-> TRUE, v |-> JObj({}), next |-> i + 2]
              ELSE ParseMembers(s, i + 1, {})
    ELSE ParseFail

\* The members of an object from position i on, up to and including its '}';
\* acc holds the members read so far.  A repeated key keeps its last value.
ParseMembers(s, i, acc) ==
    LET key == ParseString(s, i)
    IN  IF ~key.ok \/ key.next > Len(s) \/ s[key.next] # ":" THEN ParseFail
        ELSE LET val == ParseValue(s, key.next + 1)
             IN  IF ~val.ok \/ val.next > Len(s) THEN ParseFail
                 ELSE LET acc2 == Put(acc, key.v.s, val.v)
                      IN  IF s[val.next] = ","
                          THEN ParseMembers(s, val.next + 1, acc2)
                          ELSE IF s[val.next] = "}"
                          THEN [ok |-> TRUE, v |-> JObj(acc2), next |-> val.next + 1]
                          ELSE ParseFail

\* JSON.parse(text): ok is FALSE when it throws a SyntaxError.
JSONparse(s) ==
    LET r == ParseValue(s, 1)
    IN  IF r.ok /\ r.next = Len(s) + 1 THEN r ELSE ParseFail

----------------------------------------------------------------------------
(* The Product collection *)

\* Names of query parameters and of schema paths, as character strings.
S_select == <<"s", "e", "l", "e", "c", "t">>
S_sort == <<"s", "o", "r", "t">>
S_page == <<"p", "a", "g", "e">>
S_limit == <<"l", "i", "m", "i", "t">>
S_search == <<"s", "e", "a", "r", "c", "h">>
S_minPrice == <<"m", "i", "n", "P", "r", "i", "c", "e">>
S_maxPrice == <<"m", "a", "x", "P", "r", "i", "c", "e">>
S_name == <<"n", "a", "m", "e">>
S_description == <<"d", "e", "s", "c", "r", "i", "p", "t", "i", "o", "n">>
S_price == <<"p", "r", "i", "c", "e">>
S_category == <<"c", "a", "t", "e", "g", "o", "r", "y">>
S_text == <<"$", "t", "e", "x", "t">>
S_searchOp == <<"$", "s", "e", "a", "r", "c", "h">>
S_gt == <<"$", "g", "t">>
S_gte == <<"$", "g", "t", "e">>
S_lt == <<"$", "l", "t">>
S_lte == <<"$", "l", "t", "e">>
S_in == <<"$", "i", "n">>

\* productSchema: the paths of type String and the path of type Number the
\* model keeps.  A product is [id, name, description, price, category]; id is
\* the ordinal of the ObjectId the persistence layer gave it.
StringPaths == {S_name, S_description, S_category}

PathValue(doc, path) ==
    CASE path = S_name -> doc.name
      [] path = S_description -> doc.description
      [] path = S_category -> doc.category

\* Number(s) as mongoose's castNumber applies it to a string that is not
\* empty: white space around an optionally signed run of digits, NaN for
\* anything else.
RECURSIVE AllDigits(_, _, _)
AllDigits(s, i, j) == i > j \/ (s[i] \in Digits /\ AllDigits(s, i + 1, j))

RECURSIVE TrimEnd(_, _)
TrimEnd(s, j) == IF j >= 1 /\ IsSpace(s[j]) THEN TrimEnd(s, j - 1) ELSE j

ToNumber(s) ==
    LET i == SkipSpaces(s, 1)
        j == TrimEnd(s, Len(s))
        k == IF i <= j /\ s[i] \in {"-", "+"} THEN i + 1 ELSE i
    IN  IF i > j THEN Num(0)
        ELSE IF k <= j /\ AllDigits(s, k, j) THEN parseInt(s)
        ELSE NaN

\* castNumber(v) for a condition on price: [ok, null, n].  ok is FALSE when
\* it throws a CastError (NaN, an object); the empty string casts to null.
CastFail == [ok |-> FALSE, null |-> FALSE, n |-> 0]

CastNumber(v) ==
    CASE v.t = "str" ->
            IF v.s = <<>> THEN [ok |-> TRUE, null |-> TRUE, n |-> 0]
            ELSE IF ToNumber(v.s).nan THEN CastFail
            ELSE [ok |-> TRUE, null |-> FALSE, n |-> ToNumber(v.s).n]
      [] v.t = "num" ->
            IF v.num.nan THEN CastFail
            ELSE [ok |-> TRUE, null |-> FALSE, n |-> v.num.n]
      [] OTHER -> CastFail

\* The query operators a condition object on price may hold.
NumberOperators == {S_gt, S_gte, S_lt, S_lte, S_in}

\* One operator of a condition object on price, for a price x.
\* $in with a single value is cast to a list of that value.
OperatorHolds(x, op, c) ==
    /\ ~c.null
    /\ CASE op = S_gt -> x > c.n
         [] op = S_gte -> x >= c.n
         [] op = S_lt -> x < c.n
         [] op = S_lte -> x <= c.n
         [] op = S_in -> x = c.n

\* The words of a string: its maximal runs of characters other than the
\* separator.
RECURSIVE Split(_, _)
Split(s, sep) ==
    LET idx == {i \in 1..Len(s) : s[i] = sep}
    IN  IF idx = {} THEN <<s>>
        ELSE LET i == CHOOSE x \in idx : \A y \in idx : x <= y
             IN  <<SubSeq(s, 1, i - 1)>> \o Split(SubSeq(s, i + 1, Len(s)), sep)

\* The text index on name, description and category: a document matches a
\* $search string when one of the string's words is one of its words.
TextMatch(doc, s) ==
    \E i \in 1..Len(Split(s, " ")) :
        /\ Split(s, " ")[i] # <<>>
        /\ Split(s, " ")[i] \in {doc.name, doc.description, doc.category}

\* Whether running a query with this filter fails (a CastError of mongoose or
\* an error of the database), given the strictQuery setting of the build.
MemberFails(m, strictQuery) ==
    CASE m.k = S_text ->
            ~(/\ m.v.t = "obj"
              /\ Keys(m.v.o) = {S_searchOp}
              /\ Get(m.v.o, S_searchOp).t = "str")
      [] m.k \in StringPaths -> m.v.t # "str"
      [] m.k = S_price ->
            IF m.v.t = "obj"
            THEN \E c \in m.v.o : c.k \notin NumberOperators \/ ~CastNumber(c.v).ok
            ELSE ~CastNumber(m.v).ok
      [] OTHER -> ~strictQuery /\ m.k # <<>> /\ m.k[1] = "$"

FilterFails(filter, strictQuery) == \E m \in filter : MemberFails(m, strictQuery)

\* Whether a stored product satisfies one member of a filter that does not
\* fail.  A path outside the schema is dropped from the filter under
\* strictQuery and matches no document otherwise.
MemberMatches(doc, m, strictQuery) ==
    CASE m.k = S_text -> TextMatch(doc, Get(m.v.o, S_searchOp).s)
      [] m.k \in StringPaths -> PathValue(doc, m.k) = m.v.s
      [] m.k = S_price ->
            IF m.v.t = "obj"
            THEN \A c \in m.v.o : OperatorHolds(doc.price, c.k, CastNumber(c.v))
            ELSE ~CastNumber(m.v).null /\ doc.price = CastNumber(m.v).n
      [] OTHER -> strictQuery

Matches(doc, filter, strictQuery) ==
    \A m \in filter : MemberMatches(doc, m, strictQuery)

\* Product.countDocuments(filter)
countDocuments(filter, strictQuery) ==
    Cardinality({d \in products : Matches(d, filter, strictQuery)})

----------------------------------------------------------------------------
(* getProducts: the filter *)

\* if (v): a query value is falsy only when it is the empty string.
Truthy(v) == ~(v.t = "str" /\ v.s = <<>>)

\* if (req.query[k]): an absent parameter is undefined, which is falsy.
Given(query, k) == Has(query, k) /\ Truthy(Get(query, k))

\* parseFloat(req.query[k] as string), parseInt(req.query[k] as string, 10):
\* an object is first turned into the text '[object Object]'.
ParseFloatOf(v) == IF v.t = "str" THEN parseFloat(v.s) ELSE NaN

ParseIntOf(query, k) ==
    IF Has(query, k) /\ Get(query, k).t = "str" THEN parseInt(Get(query, k).s)
    ELSE NaN

\* lines 152-160
removeFields ==
    {S_select, S_sort, S_page, S_limit, S_search, S_minPrice, S_maxPrice}

\* lines 149-161: the copy of req.query without the removed fields
reqQuery(query) == {m \in query : m.k \notin removeFields}

\* lines 164-173: JSON.parse of the rewritten JSON.stringify(reqQuery)
baseFilter(query) ==
    JSONparse(ReplaceOperators(Stringify(JObj(reqQuery(query)))))

\* lines 176-186.  filter.price is kept when it is truthy, and assigning a
\* property to it when it is a string throws a TypeError: the code of a
\* module runs in strict mode.  The result is [ok, filter].
priceRange(filter, query) ==
    IF ~(Given(query, S_minPrice) \/ Given(query, S_maxPrice))
    THEN [ok |-> TRUE, filter |-> filter]
    ELSE LET p0 == IF Has(filter, S_price) /\ Truthy(Get(filter, S_price))
                   THEN Get(filter, S_price)
                   ELSE JObj({})
             p1 == IF Given(query, S_minPrice)
                   THEN Put(p0.o, S_gte, JNum(ParseFloatOf(Get(query, S_minPrice))))
                   ELSE p0.o
             p2 == IF Given(query, S_maxPrice)
                   THEN Put(p1, S_lte, JNum(ParseFloatOf(Get(query, S_maxPrice))))
                   ELSE p1
         IN  IF p0.t # "obj" THEN [ok |-> FALSE, filter |-> filter]
             ELSE [ok |-> TRUE, filter |-> Put(filter, S_price, JObj(p2))]

\* lines 189-194
textSearch(filter, query) ==
    IF Given(query, S_search)
    THEN {Mem(S_text, JObj({Mem(S_searchOp, Get(query, S_search))}))}
    ELSE filter

\* lines 149-194: [ok, error, filter], the filter handed to Product.find and
\* to Product.countDocuments, or the error thrown on the way.
buildFilter(query) ==
    LET base == baseFilter(query)
    IN  IF ~base.ok THEN [ok |-> FALSE, error |-> "SyntaxError", filter |-> {}]
        ELSE LET ranged == priceRange(base.v.o, query)
             IN  IF ~ranged.ok
                 THEN [ok |-> FALSE, error |-> "TypeError", filter |-> {}]
                 ELSE [ok |-> TRUE, error |-> "",
                       filter |-> textSearch(ranged.filter, query)]

----------------------------------------------------------------------------
(* getProducts: pagination *)

\* x || d for a number: NaN and 0 are falsy.
OrDefault(x, d) == IF x.nan \/ x.n = 0 THEN d ELSE x.n

\* line 217
pageOf(query) == OrDefault(ParseIntOf(query, S_page), 1)

\* line 218
limitOf(query) == OrDefault(ParseIntOf(query, S_limit), 10)

\* Math.ceil(a / b) for a >= 0 and b # 0; -0 is 0.
MathCeil(a, b) ==
    IF b > 0 THEN (a + b - 1) \div b ELSE 0 - (a \div (0 - b))

\* lines 219-250: the pagination object.  next and prev are sets of at most
\* one page descriptor.
paginationOf(total, page, limit) ==
    LET startIndex == (page - 1) * limit
        endIndex == page * limit
    IN  [totalPages |-> MathCeil(total, limit),
         totalItems |-> total,
         next |-> IF endIndex < total
                  THEN {[page |-> page + 1, limit |-> limit]} ELSE {},
         prev |-> IF startIndex > 0
                  THEN {[page |-> page - 1, limit |-> limit]} ELSE {}]

----------------------------------------------------------------------------
(* Routes *)

Mw(name) == [name |-> name, roles |-> {}]

\* authorize(roles)
AuthorizeMw(roles) == [name |-> "authorize", roles |-> roles]

ProductWriteRoutes ==
    {"POST /api/products", "POST /api/products/bulk", "PUT /api/products/:id",
     "PATCH /api/products/:id", "DELETE /api/products/:id"}

Routes ==
    ProductWriteRoutes
    \cup {"GET /api/products", "GET /api/products/:id", "GET /api/unknown"}

\* The handlers of a route, in the order router.METHOD lists them.  A path no
\* router matches has none and falls through to notFoundHandler.
StackMutant(route) ==
    CASE route = "POST /api/products" ->
            <<Mw("protect"), Mw("validators"), Mw("createProduct")>>
      [] route = "POST /api/products/bulk" ->
            <<Mw("protect"), Mw("createBulkProducts")>>
      [] route = "PUT /api/products/:id" ->
            <<Mw("protect"), Mw("validators"), Mw("updateProduct")>>
      [] route = "PATCH /api/products/:id" ->
            <<Mw("protect"), Mw("patchProduct")>>
      [] route = "DELETE /api/products/:id" ->
            <<Mw("protect"), Mw("deleteProduct")>>
      [] route = "GET /api/products" -> <<Mw("getProducts")>>
      [] route = "GET /api/products/:id" -> <<Mw("getProductById")>>
      [] route = "POST /api/examples" -> <<Mw("validators"), Mw("createExample")>>
      [] route = "GET /api/examples/:id" -> <<Mw("getExampleById")>>
      [] route = "PUT /api/examples/:id" -> <<Mw("validators"), Mw("updateExample")>>
      [] route = "DELETE /api/examples/:id" -> <<Mw("deleteExample")>>
      [] route = "PATCH /api/examples/:id/increment" -> <<Mw("incrementCount")>>
      [] route = "POST /api/examples/:id/tags" -> <<Mw("validators"), Mw("addTags")>>
      [] route = "DELETE /api/examples/:id/tags/:tag" -> <<Mw("removeTag")>>
      [] route = "GET /api/hello" -> <<Mw("helloRoot")>>
      [] route = "GET /api/hello/query" -> <<Mw("validators"), Mw("helloQuery")>>
      [] route = "GET /api/hello/:name" -> <<Mw("validators"), Mw("helloName")>>
      [] route = "POST /api/hello" -> <<Mw("validators"), Mw("helloPost")>>
      [] route = "GET /api/hello/headers" -> <<Mw("helloHeaders")>>
      [] route = "GET /api/auth/me" -> <<Mw("protect"), Mw("getMe")>>
      [] route = "GET /api/health" -> <<Mw("health")>>
      [] OTHER -> <<>>

Stack(route) ==
    CASE route = "POST /api/products" ->
            <<Mw("protect"), AuthorizeMw({"admin"}), Mw("validators"),
              Mw("createProduct")>>
      [] route = "POST /api/products/bulk" ->
            <<Mw("protect"), AuthorizeMw({"admin"}), Mw("createBulkProducts")>>
      [] route = "PUT /api/products/:id" ->
            <<Mw("protect"), AuthorizeMw({"admin"}), Mw("validators"),
              Mw("updateProduct")>>
      [] route = "PATCH /api/products/:id" ->
            <<Mw("protect"), AuthorizeMw({"admin"}), Mw("patchProduct")>>
      [] route = "DELETE /api/products/:id" ->
            <<Mw("protect"), AuthorizeMw({"admin"}), Mw("deleteProduct")>>
      [] route = "GET /api/products" -> <<Mw("getProducts")>>
      [] route = "GET /api/products/:id" -> <<Mw("getProductById")>>
      [] route = "POST /api/examples" -> <<Mw("validators"), Mw("createExample")>>
      [] route = "GET /api/examples/:id" -> <<Mw("getExampleById")>>
      [] route = "PUT /api/examples/:id" -> <<Mw("validators"), Mw("updateExample")>>
      [] route = "DELETE /api/examples/:id" -> <<Mw("deleteExample")>>
      [] route = "PATCH /api/examples/:id/increment" -> <<Mw("incrementCount")>>
      [] route = "POST /api/examples/:id/tags" -> <<Mw("validators"), Mw("addTags")>>
      [] route = "DELETE /api/examples/:id/tags/:tag" -> <<Mw("removeTag")>>
      [] route = "GET /api/hello" -> <<Mw("helloRoot")>>
      [] route = "GET /api/hello/query" -> <<Mw("validators"), Mw("helloQuery")>>
      [] route = "GET /api/hello/:name" -> <<Mw("validators"), Mw("helloName")>>
      [] route = "POST /api/hello" -> <<Mw("validators"), Mw("helloPost")>>
      [] route = "GET /api/hello/headers" -> <<Mw("helloHeaders")>>
      [] route = "GET /api/auth/me" -> <<Mw("protect"), Mw("getMe")>>
      [] route = "GET /api/health" -> <<Mw("health")>>
      [] OTHER -> <<>>

\* The controllers that write to the Product collection.
ProductWriters ==
    {"createProduct", "createBulkProducts", "updateProduct", "patchProduct",
     "deleteProduct"}

----------------------------------------------------------------------------
(* The steps a handler ends with *)

\* The handler named name is the next one to run.
AtHandler(name) == pc = "run" /\ chain # <<>> /\ Head(chain).name = name

\* next()
Proceed ==
    pc' = "run" /\ chain' = Tail(chain) /\ err' = err /\ responses' = responses

\* next(e), followed by return
ForwardMutant(e) ==
    /\ pc' = "error" /\ chain' = chain /\ err' = {e}
    /\ responses' = Append(responses, [status |-> 200, body |-> [success |-> TRUE]])

Forward(e) ==
    pc' = "error" /\ chain' = chain /\ err' = {e} /\ responses' = responses

\* res.status(status).json(body)
Send(status, body) ==
    /\ responses' = Append(responses, [status |-> status, body |-> body])
    /\ pc' = "done"
    /\ chain' = chain
    /\ err' = err

----------------------------------------------------------------------------
(* authMiddleware.ts *)

\* User.findById(id).select('-password') on the stored users: the set of at
\* most one record with this id.
UserFindByIdMutant(stored, id) ==
    {[id |-> u.id, name |-> u.name, email |-> u.email, role |-> u.role] :
        u \in {v \in InitUsers : v.id = id}}

UserFindById(stored, id) ==
    {[id |-> u.id, name |-> u.name, email |-> u.email, role |-> u.role] :
        u \in {v \in stored : v.id = id}}

protect ==
    /\ AtHandler("protect")
    /\ LET token == ExtractToken(req.authorization)
       IN  IF NoToken(token)
           THEN /\ Forward(ApiError(401, "Not authorized, no token"))
                /\ ran' = Append(ran, "protect")
                /\ UNCHANGED <<req, lookups>>
           ELSE IF ~JwtVerify(token[1])
           THEN /\ Forward(ApiError(401, "Not authorized, invalid token"))
                /\ ran' = Append(ran, "protect")
                /\ UNCHANGED <<req, lookups>>
           ELSE \E dbOk \in BOOLEAN :
                /\ lookups' = lookups + 1
                /\ LET found == UserFindById(users, JwtPayload(token[1]).id)
                   IN  IF ~dbOk
                       THEN /\ Forward(ApiError(401, "Not authorized, invalid token"))
                            /\ ran' = ran \o <<"protect", "dbError">>
                            /\ req' = req
                       ELSE IF found = {}
                       THEN /\ Forward(ApiError(401, "Not authorized, user not found"))
                            /\ ran' = Append(ran, "protect")
                            /\ req' = req
                       ELSE /\ req' = [req EXCEPT !.user = found]
                            /\ ran' = Append(ran, "protect")
                            /\ Proceed
    /\ UNCHANGED <<nodeEnv, removed, flights, server, examples, users, products, nextId, applied>>

\* authorize(roles), lines 78-93: "next" to continue, or the status of the
\* ApiError it forwards.  user is the set of at most one attached user.
authorizeOutcomeMutant(user, roles) ==
    IF user = {} THEN 401 ELSE 0

authorizeOutcome(user, roles) ==
    IF user = {} THEN 401
    ELSE IF (CHOOSE u \in user : TRUE).role \notin roles THEN 403
    ELSE 0

authorize ==
    /\ AtHandler("authorize")
    /\ LET outcome == authorizeOutcome(req.user, Head(chain).roles)
       IN  CASE outcome = 401 ->
                    Forward(ApiError(401, "Not authorized, no user"))
             [] outcome = 403 ->
                    Forward(ApiError(403, "User role is not authorized to access this route"))
             [] OTHER -> Proceed
    /\ ran' = Append(ran, "authorize")
    /\ UNCHANGED <<nodeEnv, removed, flights, server, examples, users, products, nextId, req, lookups, applied>>

----------------------------------------------------------------------------
(* getProducts: projection, order and window of the result *)

S_id == <<"_", "i", "d">>
S_createdAt == <<"c", "r", "e", "a", "t", "e", "d", "A", "t">>

AllPaths == StringPaths \cup {S_price, S_id}

\* A stored product as the JSON document a response carries, reduced to paths.
DocJSON(doc, paths) ==
    {Mem(p, JStr(PathValue(doc, p))) : p \in paths \cap StringPaths}
    \cup (IF S_price \in paths THEN {Mem(S_price, JNum(Num(doc.price)))} ELSE {})
    \cup (IF S_id \in paths THEN {Mem(S_id, JNum(Num(doc.id)))} ELSE {})

\* The names of a comma-separated list: select.split(',').join(' ') is read
\* by mongoose as the names between the spaces.
RECURSIVE SeqToSet(_)
SeqToSet(q) == IF q = <<>> THEN {} ELSE {Head(q)} \cup SeqToSet(Tail(q))

\* The names of s.split(',').join(' '), in order, without the empty ones.
RECURSIVE NonEmpty(_)
NonEmpty(q) ==
    IF q = <<>> THEN <<>>
    ELSE (IF Head(q) = <<>> THEN <<>> ELSE <<Head(q)>>) \o NonEmpty(Tail(q))

RECURSIVE SplitAll(_, _)
SplitAll(q, sep) ==
    IF q = <<>> THEN <<>> ELSE Split(Head(q), sep) \o SplitAll(Tail(q), sep)

NameList(s) == NonEmpty(SplitAll(Split(s, ","), " "))

Excluded(nm) == nm[1] = "-"

Bare(nm) == IF nm[1] \in {"-", "+"} THEN Tail(nm) ELSE nm

\* query.select(fields): [ok, paths].  A list that mixes inclusion and
\* exclusion is rejected by the database; _id is included unless excluded.
selectPaths(s) ==
    LET names == SeqToSet(NameList(s))
        incl == {Bare(nm) : nm \in {x \in names : ~Excluded(x)}}
        excl == {Bare(nm) : nm \in {x \in names : Excluded(x)}}
    IN  IF incl # {} /\ excl \ {S_id} # {} THEN [ok |-> FALSE, paths |-> {}]
        ELSE IF incl # {}
        THEN [ok |-> TRUE, paths |-> ((incl \cap AllPaths) \cup {S_id}) \ excl]
        ELSE [ok |-> TRUE, paths |-> AllPaths \ excl]

\* The order of the characters in a comparison of strings.
CharOrder ==
    <<"\t", " ", "\"", "$", "-", "0", "1", "2", "3", "4", "5", "6", "7", "8",
      "9", "\\", "a", "b", "c", "d", "e", "f", "g", "h", "i", "j", "k", "l",
      "m", "n", "o", "p", "q", "r", "s", "t", "u", "v", "w", "x", "y", "z">>

Code(c) == IF \E i \in 1..Len(CharOrder) : CharOrder[i] = c
           THEN CHOOSE i \in 1..Len(CharOrder) : CharOrder[i] = c
           ELSE 0

\* -1, 0 or 1 as string a sorts before, with or after string b
RECURSIVE CompareStr(_, _)
CompareStr(a, b) ==
    IF a = <<>> /\ b = <<>> THEN 0
    ELSE IF a = <<>> THEN 0 - 1
    ELSE IF b = <<>> THEN 1
    ELSE IF Code(Head(a)) < Code(Head(b)) THEN 0 - 1
    ELSE IF Code(Head(a)) > Code(Head(b)) THEN 1
    ELSE CompareStr(Tail(a), Tail(b))

CompareInt(a, b) == IF a < b THEN 0 - 1 ELSE IF a > b THEN 1 ELSE 0

\* Two documents compared on one sort key; createdAt follows the order in
\* which the ids were handed out, and a path outside the schema does not
\* separate any two documents.
CompareOn(d1, d2, key) ==
    LET path == Bare(key)
        c == CASE path = S_price -> CompareInt(d1.price, d2.price)
               [] path \in {S_id, S_createdAt} -> CompareInt(d1.id, d2.id)
               [] path \in StringPaths ->
                      CompareStr(PathValue(d1, path), PathValue(d2, path))
               [] OTHER -> 0
    IN  IF Excluded(key) THEN 0 - c ELSE c

RECURSIVE CompareDocs(_, _, _)
CompareDocs(d1, d2, keys) ==
    IF keys = <<>> THEN 0
    ELSE IF CompareOn(d1, d2, Head(keys)) # 0 THEN CompareOn(d1, d2, Head(keys))
    ELSE CompareDocs(d1, d2, Tail(keys))

\* lines 206-211: the sort keys of the query
sortKeys(query) ==
    IF Given(query, S_sort) THEN NameList(Get(query, S_sort).s)
    ELSE <<(<<"-">> \o S_createdAt)>>

\* The orders in which the database may return the documents of docs for
\* these sort keys: documents the keys do not separate come in any order.
Orders(docs, keys) ==
    {f \in [1..Cardinality(docs) -> docs] :
        /\ \A i, j \in 1..Cardinality(docs) : i # j => f[i] # f[j]
        /\ \A i, j \in 1..Cardinality(docs) :
               i < j => CompareDocs(f[i], f[j], keys) <= 0}

\* query.skip(startIndex).limit(limit) on an ordered result; a negative limit
\* is served as its absolute value.
Abs(x) == IF x < 0 THEN 0 - x ELSE x

Min(a, b) == IF a < b THEN a ELSE b

Window(ordered, startIndex, limit) ==
    SubSeq(ordered, startIndex + 1, Min(Len(ordered), startIndex + Abs(limit)))

RECURSIVE MapDocs(_, _)
MapDocs(q, paths) ==
    IF q = <<>> THEN <<>>
    ELSE <<DocJSON(Head(q), paths)>> \o MapDocs(Tail(q), paths)

----------------------------------------------------------------------------
(* productController.ts: getProducts *)

\* The body of the 200 response of getProducts, lines 252-257.
listBody(items, pagination) ==
    [success |-> TRUE, count |-> Len(items), pagination |-> pagination,
     data |-> items]

getProducts ==
    /\ AtHandler("getProducts")
    /\ LET q == req.query
           b == buildFilter(q)
           find == [op |-> "find", filter |-> b.filter]
           count == [op |-> "countDocuments", filter |-> b.filter]
           page == pageOf(q)
           limit == limitOf(q)
           sel == IF Given(q, S_select) THEN selectPaths(Get(q, S_select).s)
                  ELSE [ok |-> TRUE, paths |-> AllPaths]
       IN  IF ~b.ok
           THEN /\ Forward(Thrown(b.error, "thrown while building the filter"))
                /\ ran' = Append(ran, "getProducts")
                /\ applied' = applied
           ELSE IF \/ (Given(q, S_select) /\ Get(q, S_select).t # "str")
                   \/ (Given(q, S_sort) /\ Get(q, S_sort).t # "str")
           THEN /\ Forward(Thrown("TypeError", "split is not a function"))
                /\ ran' = Append(ran, "getProducts")
                /\ applied' = Append(applied, find)
           ELSE \E dbOk \in BOOLEAN, strictQuery \in BOOLEAN :
                /\ applied' = applied \o <<find, count>>
                /\ IF ~dbOk
                   THEN /\ Forward(Thrown("MongoNetworkError", "connection lost"))
                        /\ ran' = ran \o <<"getProducts", "dbError">>
                   ELSE IF FilterFails(b.filter, strictQuery)
                   THEN /\ Forward(Thrown("CastError", "Cast failed"))
                        /\ ran' = Append(ran, "getProducts")
                   ELSE IF (page - 1) * limit < 0 \/ ~sel.ok
                   THEN /\ Forward(Thrown("MongoServerError", "bad skip or projection"))
                        /\ ran' = Append(ran, "getProducts")
                   ELSE \E ordered \in
                            Orders({d \in products : Matches(d, b.filter, strictQuery)},
                                   sortKeys(q)) :
                        /\ Send(200,
                                listBody(MapDocs(Window(ordered, (page - 1) * limit, limit),
                                                 sel.paths),
                                         paginationOf(countDocuments(b.filter, strictQuery),
                                                      page, limit)))
                        /\ ran' = Append(ran, "getProducts")
    /\ UNCHANGED <<nodeEnv, removed, flights, server, examples, users, products, nextId, req, lookups>>

----------------------------------------------------------------------------
(* Request bodies, route validators and schema validation of products *)

\* A JSON body: the members of the object, and what body.products is
\* ("absent", "array" with these items, or "other" for a value that is no array).
Body(fields) == [fields |-> fields, bulk |-> "absent", items |-> <<>>]

BulkBody(kind, items) == [fields |-> {}, bulk |-> kind, items |-> items]

\* The text between the white space at both ends (trim: true, Number(s)).
Trimmed(s) == SubSeq(s, SkipSpaces(s, 1), TrimEnd(s, Len(s)))

\* body(path).notEmpty() fails
notEmptyFails(fields, path) ==
    ~Has(fields, path) \/ Get(fields, path) = JStr(<<>>)

\* validator's isNumeric on a string: /^[+-]?([0-9]*[.])?[0-9]+$/ without '.'
IsNumericStr(s) ==
    LET k == IF s # <<>> /\ s[1] \in {"-", "+"} THEN 2 ELSE 1
    IN  k <= Len(s) /\ AllDigits(s, k, Len(s))

\* body('price').isNumeric().isFloat({ min: 0 }) fails
priceRuleFails(fields) ==
    \/ ~Has(fields, S_price)
    \/ LET v == Get(fields, S_price)
       IN  CASE v.t = "num" -> v.num.n < 0
             [] v.t = "str" -> ~IsNumericStr(v.s) \/ parseInt(v.s).n < 0
             [] OTHER -> TRUE

\* The fields that fail the rules of POST /api/products and PUT /api/products/:id
\* (part_001 lines 187-196 and 207-216).
productRules(fields) ==
    {p \in {S_name, S_description, S_category} : notEmptyFails(fields, p)}
    \cup (IF priceRuleFails(fields) THEN {S_price} ELSE {})

\* The text of an id in a body: the ObjectId with ordinal n is written as
\* the digits of n, and a text with any other character is no ObjectId.
castObjectId(v) ==
    IF v.t = "str" /\ v.s # <<>> /\ AllDigits(v.s, 1, Len(v.s))
    THEN [valid |-> TRUE, n |-> parseInt(v.s).n]
    ELSE [valid |-> FALSE, n |-> 0]

\* productSchema (errorHandler.ts lines 164-208) applied to a new document:
\* the paths that fail validation.
RequiredStringFails(fields, path) ==
    \/ ~Has(fields, path)
    \/ Get(fields, path).t # "str"
    \/ Trimmed(Get(fields, path).s) = <<>>

PriceFails(fields) ==
    \/ ~Has(fields, S_price)
    \/ ~CastNumber(Get(fields, S_price)).ok
    \/ CastNumber(Get(fields, S_price)).null
    \/ CastNumber(Get(fields, S_price)).n < 0

schemaErrors(fields) ==
    {p \in StringPaths : RequiredStringFails(fields, p)}
    \cup (IF PriceFails(fields) THEN {S_price} ELSE {})
    \cup (IF Has(fields, S_id) /\ ~castObjectId(Get(fields, S_id)).valid
          THEN {S_id} ELSE {})

\* The document Product.create stores for valid fields, with the id the
\* persistence layer assigns.
newProduct(fields, id) ==
    [id |-> id,
     name |-> Trimmed(Get(fields, S_name).s),
     description |-> Trimmed(Get(fields, S_description).s),
     price |-> CastNumber(Get(fields, S_price)).n,
     category |-> Trimmed(Get(fields, S_category).s)]

\* findByIdAndUpdate(id, body, { new: true, runValidators: true }): casting
\* the update throws a CastError when a value cannot be cast to its path.
updateCastFails(fields) ==
    \/ Has(fields, S_price) /\ ~CastNumber(Get(fields, S_price)).ok
    \/ \E p \in StringPaths : Has(fields, p) /\ Get(fields, p).t # "str"

\* The update validators run on the paths the update sets.
updateErrors(fields) ==
    {p \in StringPaths : Has(fields, p) /\ RequiredStringFails(fields, p)}
    \cup (IF Has(fields, S_price) /\ PriceFails(fields) THEN {S_price} ELSE {})

\* The stored document after the update: the paths of the body are set,
\* every other path keeps its value.
updatedProduct(doc, fields) ==
    [id |-> doc.id,
     name |-> IF Has(fields, S_name)
              THEN Trimmed(Get(fields, S_name).s) ELSE doc.name,
     description |-> IF Has(fields, S_description)
                     THEN Trimmed(Get(fields, S_description).s) ELSE doc.description,
     price |-> IF Has(fields, S_price)
               THEN CastNumber(Get(fields, S_price)).n ELSE doc.price,
     category |-> IF Has(fields, S_category)
                  THEN Trimmed(Get(fields, S_category).s) ELSE doc.category]

\* The documents insertMany stores for a list of valid items, the first of
\* them with id first.
RECURSIVE newProducts(_, _)
newProducts(items, first) ==
    IF items = <<>> THEN {}
    ELSE {newProduct(Head(items), first)} \cup newProducts(Tail(items), first + 1)

\* req.params.id: an id in the format of an ObjectId, given by the ordinal
\* of that ObjectId (0 for one the persistence layer never handed out), or a
\* text that is no ObjectId.
ObjectId(n) == [valid |-> TRUE, n |-> n]
NotAnObjectId == [valid |-> FALSE, n |-> 0]

findById(id) == {d \in products : id.valid /\ d.id = id.n}

productBody(doc) == [success |-> TRUE, data |-> DocJSON(doc, AllPaths)]

notFound == ApiError(404, "Product not found with id")

----------------------------------------------------------------------------
(* The Example collection (models/Example.ts) and the bodies of its routes *)

S_title == <<"t", "i", "t", "l", "e">>
S_tags == <<"t", "a", "g", "s">>
S_count == <<"c", "o", "u", "n", "t">>
S_value == <<"v", "a", "l", "u", "e">>

\* The decimal digit of i, for 0 <= i <= 9.
DigitOf(i) == CHOOSE c \in Digits : DigitVal(c) = i

\* A JSON array of strings: its items are the members of o, keyed by their
\* position.
JArr(items) ==
    [t |-> "arr", s |-> <<>>, num |-> Num(0),
     o |-> {Mem(<<DigitOf(i)>>, JStr(items[i])) : i \in 1..Len(items)}]

\* The items of a JSON array, in order.
ArrItems(v) == [i \in 1..Cardinality(v.o) |-> Get(v.o, <<DigitOf(i)>>).s]

\* body(path).optional().isInt() fails
isIntFails(fields, path) ==
    /\ Has(fields, path)
    /\ LET v == Get(fields, path)
       IN  CASE v.t = "num" -> v.num.nan
             [] v.t = "str" -> ~IsNumericStr(v.s)
             [] OTHER -> TRUE

\* body('tags').isArray() fails
isArrayFails(fields) == ~Has(fields, S_tags) \/ Get(fields, S_tags).t # "arr"

\* The fields that fail the rules of POST /api/examples and of
\* PUT /api/examples/:id (the bodies of the model carry no isActive).
exampleRules(fields) ==
    (IF notEmptyFails(fields, S_title) THEN {S_title} ELSE {})
    \cup (IF Has(fields, S_tags) /\ isArrayFails(fields) THEN {S_tags} ELSE {})
    \cup (IF isIntFails(fields, S_count) THEN {S_count} ELSE {})

\* The fields that fail the rule of POST /api/examples/:id/tags.
tagsRules(fields) == IF isArrayFails(fields) THEN {S_tags} ELSE {}

\* tags: [String] casts a value that is no array to an array of that value.
castTags(v) ==
    CASE v.t = "arr" -> ArrItems(v)
      [] v.t = "str" -> <<v.s>>
      [] OTHER -> <<>>

\* exampleSchema applied to a new document: the paths that fail validation
\* (a value that cannot be cast is reported as a validation failure too).
exampleSchemaErrors(fields) ==
    (IF RequiredStringFails(fields, S_title) THEN {S_title} ELSE {})
    \cup (IF Has(fields, S_count) /\ ~CastNumber(Get(fields, S_count)).ok
          THEN {S_count} ELSE {})
    \cup (IF Has(fields, S_id) /\ ~castObjectId(Get(fields, S_id)).valid
          THEN {S_id} ELSE {})

\* The _id of a new document: the one the body gives, or else the next one
\* the driver generates.
newId(fields, generated) ==
    IF Has(fields, S_id) THEN castObjectId(Get(fields, S_id)).n ELSE generated

\* The document Example.create stores for valid fields.
newExample(fields, generated) ==
    [id |-> newId(fields, generated),
     title |-> Trimmed(Get(fields, S_title).s),
     description |-> IF Has(fields, S_description)
                     THEN Trimmed(Get(fields, S_description).s) ELSE <<>>,
     isActive |-> TRUE,
     tags |-> IF Has(fields, S_tags) THEN castTags(Get(fields, S_tags)) ELSE <<>>,
     count |-> IF Has(fields, S_count) /\ ~CastNumber(Get(fields, S_count)).null
               THEN CastNumber(Get(fields, S_count)).n ELSE 0]

\* Example.findByIdAndUpdate(id, body, { new: true, runValidators: true }):
\* casting the update throws a CastError when a value cannot be cast.
exampleCastFails(fields) ==
    \/ Has(fields, S_count) /\ ~CastNumber(Get(fields, S_count)).ok
    \/ Has(fields, S_title) /\ Get(fields, S_title).t # "str"

\* The update validators run on the paths the update sets.
exampleUpdateErrors(fields) ==
    IF Has(fields, S_title) /\ RequiredStringFails(fields, S_title)
    THEN {S_title} ELSE {}

\* The stored document after the update: the paths of the body are set,
\* every other path keeps its value.
updatedExample(doc, fields) ==
    [id |-> doc.id,
     title |-> IF Has(fields, S_title)
               THEN Trimmed(Get(fields, S_title).s) ELSE doc.title,
     description |-> IF Has(fields, S_description)
                     THEN Trimmed(Get(fields, S_description).s) ELSE doc.description,
     isActive |-> doc.isActive,
     tags |-> IF Has(fields, S_tags) THEN castTags(Get(fields, S_tags)) ELSE doc.tags,
     count |-> IF Has(fields, S_count) /\ ~CastNumber(Get(fields, S_count)).null
               THEN CastNumber(Get(fields, S_count)).n ELSE doc.count]

\* { $addToSet: { tags: { $each: more } } }: each item that the array does
\* not hold yet is appended, in the order given.
RECURSIVE addToSet(_, _)
addToSet(tags, more) ==
    IF more = <<>> THEN tags
    ELSE addToSet(IF Head(more) \in SeqToSet(tags) THEN tags
                  ELSE Append(tags, Head(more)),
                  Tail(more))

\* The update of addTags applied to a document:
\* { $addToSet: { tags: { $each: req.body.tags } } }
tagsAddedMutant(doc, fields) ==
    [doc EXCEPT !.tags = @ \o ArrItems(Get(fields, S_tags))]

tagsAdded(doc, fields) ==
    [doc EXCEPT !.tags = addToSet(@, ArrItems(Get(fields, S_tags)))]

\* { $pull: { tags: tag } }: every occurrence of tag is removed.
pull(tags, tag) == SelectSeq(tags, LAMBDA x : x # tag)

\* The update of incrementCount applied to a document:
\* { $inc: { count: incrementValue } }
incAppliedMutant(doc, v) == [doc EXCEPT !.count = v]

incApplied(doc, v) == [doc EXCEPT !.count = @ + v]

\* parseInt(req.query.value as string) || 1
incrementValueMutant(query) == OrDefault(ParseIntOf(query, S_id), 1)

incrementValue(query) == OrDefault(ParseIntOf(query, S_value), 1)

exampleFindById(id) == {d \in examples : id.valid /\ d.id = id.n}

exampleJSON(doc) ==
    [id |-> doc.id, title |-> doc.title, description |-> doc.description,
     isActive |-> doc.isActive, tags |-> doc.tags, count |-> doc.count]

exampleBody(doc) == [success |-> TRUE, data |-> exampleJSON(doc)]

\* next(new ApiError(404, ...)), which the handlers also do for a CastError.
exampleNotFoundMutant == Thrown("CastError", "Cast to ObjectId failed")

exampleNotFound == ApiError(404, "Example not found with id")

----------------------------------------------------------------------------
(* productController.ts: the other controllers *)

\* The array of validation chains of a route: each chain records its
\* failures on the request and calls next().
\* helloRoutes: the rules of GET /hello/query and of POST /hello.
S_language == <<"l", "a", "n", "g", "u", "a", "g", "e">>
S_age == <<"a", "g", "e">>
S_email == <<"e", "m", "a", "i", "l">>

Languages == {<<"e", "n">>, <<"e", "s">>, <<"f", "r">>, <<"z", "h">>, <<"j", "a">>}

\* validator's isEmail on the strings of the model: one '@' after a local
\* part of word characters, then a domain of letters and digits whose last
\* label has two letters or more.
IsEmail(s) ==
    \E i \in 2..Len(s) : \E j \in (i + 2)..Len(s) :
        /\ s[i] = "@"
        /\ \A k \in 1..(i - 1) : IsWordChar(s[k])
        /\ s[j] = "."
        /\ \A k \in (i + 1)..Len(s) : k # j => s[k] \in Letters \cup Digits
        /\ Len(s) - j >= 2
        /\ \A k \in (j + 1)..Len(s) : s[k] \in Letters

\* query('name').optional().isString(), query('language').optional().isIn([...])
helloQueryRules(query) ==
    (IF Has(query, S_name) /\ Get(query, S_name).t # "str" THEN {S_name} ELSE {})
    \cup (IF Has(query, S_language)
             /\ ~(Get(query, S_language).t = "str"
                  /\ Get(query, S_language).s \in Languages)
          THEN {S_language} ELSE {})

\* body('name').notEmpty(), body('age').optional().isInt(),
\* body('email').optional().isEmail()
helloBodyRules(fields) ==
    (IF notEmptyFails(fields, S_name) THEN {S_name} ELSE {})
    \cup (IF isIntFails(fields, S_age) THEN {S_age} ELSE {})
    \cup (IF Has(fields, S_email)
             /\ ~(Get(fields, S_email).t = "str" /\ IsEmail(Get(fields, S_email).s))
          THEN {S_email} ELSE {})

\* The fields of the request r that fail the rules its route declares.
routeRules(r) ==
    CASE r.route \in {"POST /api/products", "PUT /api/products/:id"} ->
            productRules(r.body.fields)
      [] r.route \in {"POST /api/examples", "PUT /api/examples/:id"} ->
            exampleRules(r.body.fields)
      [] r.route = "POST /api/examples/:id/tags" -> tagsRules(r.body.fields)
      [] r.route = "GET /api/hello/query" -> helloQueryRules(r.query)
      [] r.route = "POST /api/hello" -> helloBodyRules(r.body.fields)
      [] OTHER -> {}

validators ==
    /\ AtHandler("validators")
    /\ req' = [req EXCEPT !.validation = routeRules(req)]
    /\ Proceed
    /\ ran' = Append(ran, "validators")
    /\ UNCHANGED <<nodeEnv, removed, flights, server, examples, users, products, nextId, lookups, applied>>

createProduct ==
    /\ AtHandler("createProduct")
    /\ IF req.validation # {}
       THEN /\ Forward(ApiError(400, "Validation error"))
            /\ ran' = Append(ran, "createProduct")
            /\ UNCHANGED <<products, nextId>>
       ELSE \E dbOk \in BOOLEAN :
            IF schemaErrors(req.body.fields) # {}
            THEN /\ Forward(Thrown("ValidationError", "Product validation failed"))
                 /\ ran' = Append(ran, "createProduct")
                 /\ UNCHANGED <<products, nextId>>
            ELSE IF ~dbOk
            THEN /\ Forward(Thrown("MongoNetworkError", "connection lost"))
                 /\ ran' = ran \o <<"createProduct", "dbError">>
                 /\ UNCHANGED <<products, nextId>>
            ELSE IF \E d \in products : d.id = newId(req.body.fields, nextId + 1)
            THEN /\ Forward(Thrown("MongoServerError", "E11000 duplicate key"))
                 /\ ran' = ran \o <<"createProduct", "dbError">>
                 /\ UNCHANGED <<products, nextId>>
            ELSE LET new == newProduct(req.body.fields,
                                       newId(req.body.fields, nextId + 1))
                 IN  /\ products' = products \cup {new}
                     /\ nextId' = IF Has(req.body.fields, S_id)
                                  THEN nextId ELSE nextId + 1
                     /\ Send(201, productBody(new))
                     /\ ran' = Append(ran, "createProduct")
    /\ UNCHANGED <<nodeEnv, removed, flights, server, examples, users, req, lookups, applied>>

createBulkProducts ==
    /\ AtHandler("createBulkProducts")
    /\ IF req.body.bulk # "array"
       THEN /\ Forward(ApiError(400, "Products array is required"))
            /\ ran' = Append(ran, "createBulkProducts")
            /\ UNCHANGED <<products, nextId>>
       ELSE \E dbOk \in BOOLEAN :
            IF \E i \in 1..Len(req.body.items) : schemaErrors(req.body.items[i]) # {}
            THEN /\ Forward(Thrown("ValidationError", "Product validation failed"))
                 /\ ran' = Append(ran, "createBulkProducts")
                 /\ UNCHANGED <<products, nextId>>
            ELSE IF ~dbOk
            THEN /\ Forward(Thrown("MongoNetworkError", "connection lost"))
                 /\ ran' = ran \o <<"createBulkProducts", "dbError">>
                 /\ UNCHANGED <<products, nextId>>
            ELSE /\ products' = products \cup newProducts(req.body.items, nextId + 1)
                 /\ nextId' = nextId + Len(req.body.items)
                 /\ Send(201, [success |-> TRUE, count |-> Len(req.body.items),
                               data |-> {DocJSON(d, AllPaths) :
                                           d \in newProducts(req.body.items, nextId + 1)}])
                 /\ ran' = Append(ran, "createBulkProducts")
    /\ UNCHANGED <<nodeEnv, removed, flights, server, examples, users, req, lookups, applied>>

\* updateProduct (lines 356-384) and patchProduct (lines 443-471) have the
\* same body; name is the handler that runs.
findByIdAndUpdate(name) ==
    /\ AtHandler(name)
    /\ \E dbOk \in BOOLEAN :
       IF ~req.params.id.valid \/ updateCastFails(req.body.fields)
       THEN /\ Forward(notFound)
            /\ ran' = Append(ran, name)
            /\ products' = products
       ELSE IF updateErrors(req.body.fields) # {}
       THEN /\ Forward(Thrown("ValidationError", "Validation failed"))
            /\ ran' = Append(ran, name)
            /\ products' = products
       ELSE IF ~dbOk
       THEN /\ Forward(Thrown("MongoNetworkError", "connection lost"))
            /\ ran' = ran \o <<name, "dbError">>
            /\ products' = products
       ELSE IF findById(req.params.id) = {}
       THEN /\ Forward(notFound)
            /\ ran' = Append(ran, name)
            /\ products' = products
       ELSE LET doc == CHOOSE d \in findById(req.params.id) : TRUE
                new == updatedProduct(doc, req.body.fields)
            IN  /\ products' = (products \ {doc}) \cup {new}
                /\ Send(200, productBody(new))
                /\ ran' = Append(ran, name)
    /\ UNCHANGED <<nodeEnv, removed, flights, server, examples, users, nextId, req, lookups, applied>>

updateProduct == findByIdAndUpdate("updateProduct")

patchProduct == findByIdAndUpdate("patchProduct")

deleteProduct ==
    /\ AtHandler("deleteProduct")
    /\ \E dbOk \in BOOLEAN :
       IF ~req.params.id.valid
       THEN /\ Forward(notFound)
            /\ ran' = Append(ran, "deleteProduct")
            /\ products' = products
       ELSE IF ~dbOk
       THEN /\ Forward(Thrown("MongoNetworkError", "connection lost"))
            /\ ran' = ran \o <<"deleteProduct", "dbError">>
            /\ products' = products
       ELSE IF findById(req.params.id) = {}
       THEN /\ Forward(notFound)
            /\ ran' = Append(ran, "deleteProduct")
            /\ products' = products
       ELSE /\ products' = products \ findById(req.params.id)
            /\ Send(200, [success |-> TRUE, data |-> {}])
            /\ ran' = Append(ran, "deleteProduct")
    /\ UNCHANGED <<nodeEnv, removed, flights, server, examples, users, nextId, req, lookups, applied>>

getProductById ==
    /\ AtHandler("getProductById")
    /\ \E dbOk \in BOOLEAN :
       IF ~req.params.id.valid
       THEN /\ Forward(notFound)
            /\ ran' = Append(ran, "getProductById")
       ELSE IF ~dbOk
       THEN /\ Forward(Thrown("MongoNetworkError", "connection lost"))
            /\ ran' = ran \o <<"getProductById", "dbError">>
       ELSE IF findById(req.params.id) = {}
       THEN /\ Forward(notFound)
            /\ ran' = Append(ran, "getProductById")
       ELSE /\ Send(200, productBody(CHOOSE d \in findById(req.params.id) : TRUE))
            /\ ran' = Append(ran, "getProductById")
    /\ UNCHANGED <<nodeEnv, removed, flights, server, examples, users, products, nextId, req, lookups, applied>>

----------------------------------------------------------------------------
(* exampleController.ts *)

createExample ==
    /\ AtHandler("createExample")
    /\ IF req.validation # {}
       THEN /\ Forward(ApiError(400, "Validation error"))
            /\ ran' = Append(ran, "createExample")
            /\ UNCHANGED <<examples, nextId>>
       ELSE \E dbOk \in BOOLEAN :
            LET fields == req.body.fields
                new == newExample(fields, nextId + 1)
            IN  IF exampleSchemaErrors(fields) # {}
                THEN /\ Forward(Thrown("ValidationError", "Example validation failed"))
                     /\ ran' = Append(ran, "createExample")
                     /\ UNCHANGED <<examples, nextId>>
                ELSE IF ~dbOk
                THEN /\ Forward(Thrown("MongoNetworkError", "connection lost"))
                     /\ ran' = ran \o <<"createExample", "dbError">>
                     /\ UNCHANGED <<examples, nextId>>
                ELSE IF \E d \in examples : d.id = new.id
                THEN /\ Forward(Thrown("MongoServerError", "E11000 duplicate key"))
                     /\ ran' = ran \o <<"createExample", "dbError">>
                     /\ UNCHANGED <<examples, nextId>>
                ELSE /\ examples' = examples \cup {new}
                     /\ nextId' = IF Has(fields, S_id) THEN nextId ELSE nextId + 1
                     /\ Send(201, exampleBody(new))
                     /\ ran' = Append(ran, "createExample")
    /\ UNCHANGED <<nodeEnv, removed, flights, server, users, products, req, lookups, applied>>

getExampleById ==
    /\ AtHandler("getExampleById")
    /\ \E dbOk \in BOOLEAN :
       IF ~req.params.id.valid
       THEN /\ Forward(exampleNotFound)
            /\ ran' = Append(ran, "getExampleById")
       ELSE IF ~dbOk
       THEN /\ Forward(Thrown("MongoNetworkError", "connection lost"))
            /\ ran' = ran \o <<"getExampleById", "dbError">>
       ELSE IF exampleFindById(req.params.id) = {}
       THEN /\ Forward(exampleNotFound)
            /\ ran' = Append(ran, "getExampleById")
       ELSE /\ Send(200, exampleBody(CHOOSE d \in exampleFindById(req.params.id) : TRUE))
            /\ ran' = Append(ran, "getExampleById")
    /\ UNCHANGED <<nodeEnv, removed, flights, server, users, products, examples, nextId, req, lookups, applied>>

\* Example.findByIdAndUpdate(req.params.id, update, options) as the four
\* handlers that use it end: castFails and errors are those of the update,
\* change(doc) is the document it leaves.
exampleUpdate(name, castFails, errors, change(_)) ==
    \E dbOk \in BOOLEAN :
       IF ~req.params.id.valid \/ castFails
       THEN /\ Forward(exampleNotFound)
            /\ ran' = Append(ran, name)
            /\ examples' = examples
       ELSE IF errors # {}
       THEN /\ Forward(Thrown("ValidationError", "Validation failed"))
            /\ ran' = Append(ran, name)
            /\ examples' = examples
       ELSE IF ~dbOk
       THEN /\ Forward(Thrown("MongoNetworkError", "connection lost"))
            /\ ran' = ran \o <<name, "dbError">>
            /\ examples' = examples
       ELSE IF exampleFindById(req.params.id) = {}
       THEN /\ Forward(exampleNotFound)
            /\ ran' = Append(ran, name)
            /\ examples' = examples
       ELSE LET doc == CHOOSE d \in exampleFindById(req.params.id) : TRUE
            IN  /\ examples' = (examples \ {doc}) \cup {change(doc)}
                /\ Send(200, exampleBody(change(doc)))
                /\ ran' = Append(ran, name)

updateExample ==
    /\ AtHandler("updateExample")
    /\ exampleUpdate("updateExample", exampleCastFails(req.body.fields),
                     exampleUpdateErrors(req.body.fields),
                     LAMBDA doc : updatedExample(doc, req.body.fields))
    /\ UNCHANGED <<nodeEnv, removed, flights, server, users, products, nextId, req, lookups, applied>>

deleteExample ==
    /\ AtHandler("deleteExample")
    /\ \E dbOk \in BOOLEAN :
       IF ~req.params.id.valid
       THEN /\ Forward(exampleNotFound)
            /\ ran' = Append(ran, "deleteExample")
            /\ examples' = examples
       ELSE IF ~dbOk
       THEN /\ Forward(Thrown("MongoNetworkError", "connection lost"))
            /\ ran' = ran \o <<"deleteExample", "dbError">>
            /\ examples' = examples
       ELSE IF exampleFindById(req.params.id) = {}
       THEN /\ Forward(exampleNotFound)
            /\ ran' = Append(ran, "deleteExample")
            /\ examples' = examples
       ELSE /\ examples' = examples \ exampleFindById(req.params.id)
            /\ Send(200, [success |-> TRUE, data |-> {}])
            /\ ran' = Append(ran, "deleteExample")
    /\ removed' = removed \cup {d.id : d \in examples \ examples'}
    /\ UNCHANGED <<nodeEnv, flights, server, users, products, nextId, req, lookups, applied>>

incrementCount ==
    /\ AtHandler("incrementCount")
    /\ exampleUpdate("incrementCount", FALSE, {},
                     LAMBDA doc : incApplied(doc, incrementValue(req.query)))
    /\ UNCHANGED <<nodeEnv, removed, flights, server, users, products, nextId, req, lookups, applied>>

addTags ==
    /\ AtHandler("addTags")
    /\ IF isArrayFails(req.body.fields)
       THEN /\ Forward(ApiError(400, "Tags array is required"))
            /\ ran' = Append(ran, "addTags")
            /\ examples' = examples
       ELSE exampleUpdate("addTags", FALSE, {},
                          LAMBDA doc : tagsAdded(doc, req.body.fields))
    /\ UNCHANGED <<nodeEnv, removed, flights, server, users, products, nextId, req, lookups, applied>>

removeTag ==
    /\ AtHandler("removeTag")
    /\ exampleUpdate("removeTag", FALSE, {},
                     LAMBDA doc : [doc EXCEPT !.tags = pull(@, req.params.tag)])
    /\ UNCHANGED <<nodeEnv, removed, flights, server, users, products, nextId, req, lookups, applied>>

----------------------------------------------------------------------------
(* helloRoutes.ts and the health route *)

\* The greeting of a language; 'zh' and 'ja' are written in Latin letters here.
greetingOf(language) ==
    CASE language = <<"e", "s">> -> "Hola"
      [] language = <<"f", "r">> -> "Bonjour"
      [] language = <<"z", "h">> -> "Ni hao"
      [] language = <<"j", "a">> -> "Konnichiwa"
      [] OTHER -> "Hello"

\* req.query[k] || d for a query that passed the rules
QueryOr(query, k, d) == IF Given(query, k) THEN Get(query, k).s ELSE d

W_World == <<"W", "o", "r", "l", "d">>

\* `${greeting}, ${name}!`
helloMessage(greeting, name) == [greeting |-> greeting, name |-> name]

W_query == <<"q", "u", "e", "r", "y">>
W_headers == <<"h", "e", "a", "d", "e", "r", "s">>
ParamName == <<":", "n", "a", "m", "e">>

\* The routes of the hello router in the order router.METHOD registers them
\* (part_002 lines 30, 84, 134, 195, 254); path is the list of the segments
\* after /api/hello.
helloLayers ==
    <<[method |-> "GET",  path |-> <<>>,          route |-> "GET /api/hello"],
      [method |-> "GET",  path |-> <<W_query>>,   route |-> "GET /api/hello/query"],
      [method |-> "GET",  path |-> <<ParamName>>, route |-> "GET /api/hello/:name"],
      [method |-> "POST", path |-> <<>>,          route |-> "POST /api/hello"],
      [method |-> "GET",  path |-> <<W_headers>>, route |-> "GET /api/hello/headers"]>>

\* A layer of the router matches a request: same method, as many segments,
\* and each segment equal to the layer's unless the layer's is a parameter.
LayerMatches(layer, method, segs) ==
    /\ layer.method = method
    /\ Len(layer.path) = Len(segs)
    /\ \A i \in DOMAIN segs : layer.path[i] = segs[i] \/ Head(layer.path[i]) = ":"

\* The route that answers: the first registered layer that matches (its
\* handler sends the response and never calls next), "GET /api/unknown"
\* when none does.
helloRoute(method, segs) ==
    LET hits == {i \in DOMAIN helloLayers : LayerMatches(helloLayers[i], method, segs)}
    IN  IF hits = {} THEN "GET /api/unknown"
        ELSE helloLayers[CHOOSE i \in hits : \A j \in hits : i <= j].route

\* req.header(k) || d
HeaderOr(h, d) == IF h = <<>> THEN d ELSE h

\* The body the handler of GET /headers sends for these x-name and
\* x-language headers (<<>> is an absent header), part_002 lines 254-275.
helloHeadersBody(xName, xLanguage) ==
    LET name == HeaderOr(xName, W_World)
        language == HeaderOr(xLanguage, <<"e", "n">>)
    IN  [message |-> helloMessage(greetingOf(language), name),
         headers |-> [xName |-> name, xLanguage |-> language]]

helloRoot ==
    /\ AtHandler("helloRoot")
    /\ Send(200, [message |-> helloMessage("Hello", W_World)])
    /\ ran' = Append(ran, "helloRoot")
    /\ UNCHANGED <<nodeEnv, removed, flights, server, users, products, examples, nextId, req, lookups, applied>>

helloQuery ==
    /\ AtHandler("helloQuery")
    /\ IF req.validation # {}
       THEN Send(400, [errors |-> req.validation])
       ELSE Send(200, [message |->
                helloMessage(greetingOf(QueryOr(req.query, S_language, <<"e", "n">>)),
                             QueryOr(req.query, S_name, W_World))])
    /\ ran' = Append(ran, "helloQuery")
    /\ UNCHANGED <<nodeEnv, removed, flights, server, users, products, examples, nextId, req, lookups, applied>>

helloName ==
    /\ AtHandler("helloName")
    /\ IF req.validation # {}
       THEN Send(400, [errors |-> req.validation])
       ELSE Send(200, [message |-> helloMessage("Hello", req.params.name)])
    /\ ran' = Append(ran, "helloName")
    /\ UNCHANGED <<nodeEnv, removed, flights, server, users, products, examples, nextId, req, lookups, applied>>

helloPost ==
    /\ AtHandler("helloPost")
    /\ IF req.validation # {}
       THEN Send(400, [errors |-> req.validation])
       ELSE Send(200, [message |-> helloMessage("Hello", Get(req.body.fields, S_name).s),
                       userInfo |-> {m \in req.body.fields :
                                        m.k \in {S_name, S_age, S_email}}])
    /\ ran' = Append(ran, "helloPost")
    /\ UNCHANGED <<nodeEnv, removed, flights, server, users, products, examples, nextId, req, lookups, applied>>

\* The readings of the clock, as new Date().toISOString() prints them.
Clock == {"2026-01-01T00:00:00.000Z", "2026-01-01T00:00:01.000Z"}

\* A member of a response body whose value may be undefined: res.json leaves
\* such a member out.  The set holds the value when there is one.
Defined(env) == IF env = "" THEN {} ELSE {env}

\* GET /api/health, routes/index.ts lines 20-27
health ==
    /\ AtHandler("health")
    /\ \E now \in Clock :
          Send(200, [success |-> TRUE, message |-> "API is running",
                     timestamp |-> {now}, environment |-> Defined(nodeEnv)])
    /\ ran' = Append(ran, "health")
    /\ UNCHANGED <<nodeEnv, removed, flights, server, users, products, examples, nextId, req, lookups, applied>>

----------------------------------------------------------------------------
(* errorHandler.ts *)

\* errorHandler, lines 32-66: the status and the message of the response.
errorStatusMutant(e) ==
    CASE e.name = "ApiError" -> e.statusCode
      [] e.name = "UnauthorizedError" -> 401
      [] OTHER -> 500

errorStatus(e) ==
    CASE e.name = "ApiError" -> e.statusCode
      [] e.name = "UnauthorizedError" -> 401
      [] e.name = "ValidationError" -> 400
      [] OTHER -> 500

errorMessage(e) ==
    CASE e.name = "ApiError" -> e.message
      [] e.name = "UnauthorizedError" -> "Unauthorized: Invalid token"
      [] e.name = "ValidationError" -> e.message
      [] OTHER -> "Server Error"

\* stack: process.env.NODE_ENV === 'development' ? err.stack : undefined.  A
\* member that is undefined is left out of the JSON text: the response has
\* a stack, which begins with the name and the message of the error, or none.
errorStack(e, env) ==
    IF env = "development" THEN {<<e.name, e.message>>} ELSE {}

errorHandler ==
    /\ pc = "error"
    /\ LET e == CHOOSE x \in err : TRUE
       IN  Send(errorStatus(e), [success |-> FALSE, error |-> errorMessage(e),
                                 stack |-> errorStack(e, nodeEnv)])
    /\ ran' = Append(ran, "errorHandler")
    /\ UNCHANGED <<nodeEnv, removed, flights, server, examples, users, products, nextId, req, lookups, applied>>

\* notFoundHandler runs when no route handled the request.
notFoundHandler ==
    /\ pc = "run"
    /\ chain = <<>>
    /\ Send(404, [success |-> FALSE, error |-> "Not Found"])
    /\ ran' = Append(ran, "notFoundHandler")
    /\ UNCHANGED <<nodeEnv, removed, flights, server, examples, users, products, nextId, req, lookups, applied>>

----------------------------------------------------------------------------
(* Requests *)

W_a == <<"a">>
W_b == <<"b">>
W_d == <<"d">>
W_in == <<"i", "n">>

productFields(name, price, category) ==
    {Mem(S_name, JStr(name)), Mem(S_description, JStr(W_d)), Mem(S_price, price),
     Mem(S_category, JStr(category))}

\* The JSON bodies of the requests: two valid products, a negative price, a
\* price that is no number, and a body with a price only.
ValidA == productFields(W_a, JNum(Num(5)), W_a)
ValidB == productFields(W_b, JStr(<<"7">>), W_in)
NegativePrice == productFields(W_a, JNum(Num(0 - 1)), W_a)
TextPrice == productFields(W_a, JStr(<<"x">>), W_a)
PriceOnly == {Mem(S_price, JNum(Num(3)))}

ProductBodies ==
    {Body(ValidA), Body(ValidB), Body(NegativePrice), Body(TextPrice), Body(PriceOnly)}

BulkBodies ==
    {BulkBody("absent", <<>>), BulkBody("other", <<>>), BulkBody("array", <<>>),
     BulkBody("array", <<ValidA>>), BulkBody("array", <<ValidB, ValidA>>),
     BulkBody("array", <<ValidA, NegativePrice>>)}

ParamIds == {ObjectId(n) : n \in 1..MaxProducts} \cup {NotAnObjectId}

\* The query strings of GET /api/products in the behaviours of Spec.
SmallQueries ==
    {{}, {Mem(S_category, JStr(W_a))}, {Mem(S_search, JStr(W_b))},
     {Mem(S_page, JStr(<<"2">>)), Mem(S_limit, JStr(<<"1">>))}}

Request(route, authorization, id, query, body) ==
    [route |-> route, authorization |-> authorization,
     params |-> [id |-> id, tag |-> <<>>, name |-> <<>>],
     query |-> query, body |-> body, user |-> {}, validation |-> {}]

NoRequest == Request("", <<>>, ObjectId(0), {}, Body({}))

\* express hands a request to the handlers of the route it matches.
dispatch(r) ==
    /\ pc = "idle"
    /\ req' = r
    /\ chain' = Stack(r.route)
    /\ pc' = "run"
    /\ err' = {}
    /\ responses' = <<>>
    /\ ran' = <<>>
    /\ lookups' = 0
    /\ applied' = <<>>
    /\ UNCHANGED <<nodeEnv, removed, flights, server, users, products, examples, nextId>>

WithId == {"PUT /api/products/:id", "PATCH /api/products/:id",
           "DELETE /api/products/:id", "GET /api/products/:id"}

WithFields == {"POST /api/products", "PUT /api/products/:id",
               "PATCH /api/products/:id"}

NewRequest ==
    \E route \in Routes :
    \E authorization \in (IF route \in ProductWriteRoutes THEN Headers ELSE {<<>>}) :
    \E id \in (IF route \in WithId THEN ParamIds ELSE {ObjectId(0)}) :
    \E query \in (IF route = "GET /api/products" THEN SmallQueries ELSE {{}}) :
    \E body \in (IF route \in WithFields THEN ProductBodies
                 ELSE IF route = "POST /api/products/bulk" THEN BulkBodies
                 ELSE {Body({})}) :
        /\ route = "POST /api/products" => nextId < MaxProducts
        /\ route = "POST /api/products/bulk" => nextId + Len(body.items) <= MaxProducts
        /\ dispatch(Request(route, authorization, id, query, body))

\* The response is on its way and the request is over: its objects are dropped.
requestEnd ==
    /\ pc = "done"
    /\ pc' = "idle"
    /\ req' = NoRequest
    /\ chain' = <<>>
    /\ err' = {}
    /\ responses' = <<>>
    /\ ran' = <<>>
    /\ lookups' = 0
    /\ applied' = <<>>
    /\ UNCHANGED <<nodeEnv, removed, flights, server, users, products, examples, nextId>>

\* A user record is removed from the User collection (by an operator or by
\* another service: the application has no route that does it).
RemoveUser ==
    /\ \E u \in users : users' = users \ {u}
    /\ UNCHANGED <<nodeEnv, removed, flights, server, examples, products, nextId, req, chain, pc, err, responses,
                   ran, lookups, applied>>

----------------------------------------------------------------------------
(* The application *)

Init ==
    /\ nodeEnv = "production"
    /\ removed = {}
    /\ flights = NoFlights
    /\ server = Serving
    /\ users = InitUsers
    /\ examples = {}
    /\ products = {}
    /\ nextId = 0
    /\ req = NoRequest
    /\ chain = <<>>
    /\ pc = "idle"
    /\ err = {}
    /\ responses = <<>>
    /\ ran = <<>>
    /\ lookups = 0
    /\ applied = <<>>

Next ==
    \/ NewRequest
    \/ requestEnd
    \/ RemoveUser
    \/ protect
    \/ authorize
    \/ validators
    \/ createProduct
    \/ createBulkProducts
    \/ updateProduct
    \/ patchProduct
    \/ deleteProduct
    \/ getProducts
    \/ getProductById
    \/ errorHandler
    \/ notFoundHandler

Spec == Init /\ [][Next]_vars

----------------------------------------------------------------------------
(* GET /api/products on a bounded family of stores and query strings *)

MaxStore == 3      \* products in the largest store of SpecList
MaxStrLen == 3     \* length of the longest free string in a query of SpecList

\* The i-th product of the catalogue the stores of SpecList are drawn from:
\* prices 1, 3, 5, ..., names a and b, categories a and in.
CatalogueDoc(i) ==
    [id |-> i,
     name |-> IF i % 2 = 1 THEN W_a ELSE W_b,
     description |-> W_d,
     price |-> 2 * i - 1,
     category |-> IF i % 3 = 2 THEN W_in ELSE W_a]

Stores == SUBSET {CatalogueDoc(i) : i \in 1..MaxStore}

\* An optional parameter: absent, or given with one of these strings.
Opt(key, strings) == {{}} \cup {{Mem(key, JStr(s))} : s \in strings}

\* Queries that vary page, limit, sort and select.
PaginationQueries ==
    {p \cup l \cup so \cup se \cup f :
        p \in Opt(S_page, {<<"2">>, <<"x">>, <<"-", "1">>, <<"0">>, <<"3">>}),
        l \in Opt(S_limit, {<<"1">>, <<"2">>, <<"x">>, <<"-", "1">>}),
        so \in Opt(S_sort, {S_price}),
        se \in Opt(S_select, {S_name}),
        f \in Opt(S_category, {W_a})}

\* The conditions on fields a query string can carry besides the reserved
\* parameters: category=a, category=in, price=5, price[gte]=3,
\* price[gt]=1&price[lt]=7, price[x]=1 and in=a.
FieldConditions ==
    {{}, {Mem(S_category, JStr(W_a))}, {Mem(S_category, JStr(W_in))},
     {Mem(S_price, JStr(<<"5">>))},
     {Mem(S_price, JObj({Mem(<<"g", "t", "e">>, JStr(<<"3">>))}))},
     {Mem(S_price, JObj({Mem(<<"g", "t">>, JStr(<<"1">>)),
                         Mem(<<"l", "t">>, JStr(<<"7">>))}))},
     {Mem(S_price, JObj({Mem(<<"x">>, JStr(<<"1">>))}))},
     {Mem(W_in, JStr(W_a))}}

\* Queries that vary the filter parameters.
FilterQueries ==
    {mn \cup mx \cup s \cup f \cup p :
        mn \in Opt(S_minPrice, {<<>>, <<"3">>, <<"x">>}),
        mx \in Opt(S_maxPrice, {<<"5">>, <<"x">>}),
        s \in Opt(S_search, {<<>>, W_a, <<"i", "n", " ", "b">>}),
        f \in FieldConditions,
        p \in Opt(S_limit, {<<"1">>})}

\* The strings of at most n of these characters.
FreeChars == {"g", "t", "e", "l", "i", "n", " ", "$", "\"", "\t"}

RECURSIVE StringsUpTo(_)
StringsUpTo(n) ==
    IF n = 0 THEN {<<>>}
    ELSE StringsUpTo(n - 1)
         \cup {Append(s, c) : s \in {x \in StringsUpTo(n - 1) : Len(x) = n - 1},
                              c \in FreeChars}

\* Queries with one free string as the value of a field, as the name of a
\* field, or as the key of a condition on price.
FreeQueries ==
    {{Mem(S_category, JStr(s))} : s \in StringsUpTo(MaxStrLen)}
    \cup {{Mem(s, JStr(W_a))} : s \in StringsUpTo(MaxStrLen) \ {<<>>}}
    \cup {{Mem(S_price, JObj({Mem(s, JStr(<<"3">>))}))} :
            s \in StringsUpTo(MaxStrLen) \ {<<>>}}

FullStore == {CatalogueDoc(i) : i \in 1..MaxStore}

\* A GET /api/products request has been dispatched to getProducts: any of
\* the pagination and filter queries on any store of Stores, or any of the
\* free queries on the full store.
InitList ==
    /\ nodeEnv = "production"
    /\ removed = {}
    /\ flights = NoFlights
    /\ server = Serving
    /\ users = InitUsers
    /\ examples = {}
    /\ nextId = MaxStore
    /\ \E query \in PaginationQueries \cup FilterQueries \cup FreeQueries :
           /\ req = Request("GET /api/products", <<>>, ObjectId(0), query, Body({}))
           /\ IF query \in PaginationQueries \cup FilterQueries
              THEN products \in Stores
              ELSE products = FullStore
    /\ chain = Stack("GET /api/products")
    /\ pc = "run"
    /\ err = {}
    /\ responses = <<>>
    /\ ran = <<>>
    /\ lookups = 0
    /\ applied = <<>>

NextList == getProducts \/ errorHandler

SpecList == InitList /\ [][NextList]_vars

----------------------------------------------------------------------------
(* authorize(roles) on any request and any list of roles *)

RoleNames == {"user", "admin", "editor"}

\* The request reaches authorize(roles) with no user or any user attached; the
\* handler after it is getProductById.
InitAuthorize ==
    /\ nodeEnv = "production"
    /\ removed = {}
    /\ flights = NoFlights
    /\ server = Serving
    /\ users = InitUsers
    /\ examples = {}
    /\ products = {}
    /\ nextId = 0
    /\ \E user \in {{}} \cup {{[id |-> i, role |-> r]} : i \in UserIds, r \in Roles} :
       \E id \in ParamIds :
           req = [Request("GET /api/products/:id", <<>>, id, {}, Body({}))
                     EXCEPT !.user = user]
    /\ \E roles \in SUBSET RoleNames :
           chain = <<AuthorizeMw(roles), Mw("getProductById")>>
    /\ pc = "run"
    /\ err = {}
    /\ responses = <<>>
    /\ ran = <<>>
    /\ lookups = 0
    /\ applied = <<>>

NextAuthorize == authorize \/ getProductById \/ errorHandler

SpecAuthorize == InitAuthorize /\ [][NextAuthorize]_vars

----------------------------------------------------------------------------
(* One request of any route with a record id or a body, on any small store *)

MaxExamples == 2     \* example records in the largest store of SpecOne

W_x == <<"x">>
W_y == <<"y">>
W_z == <<"z">>

\* The i-th example of the catalogue the stores of SpecOne are drawn from.
CatalogueExample(i) ==
    [id |-> i,
     title |-> W_a,
     description |-> <<>>,
     isActive |-> TRUE,
     tags |-> IF i % 2 = 1 THEN <<W_x>> ELSE <<W_x, W_y>>,
     count |-> i]

ProductStores == SUBSET {CatalogueDoc(i) : i \in 1..MaxProducts}

ExampleStores == SUBSET {CatalogueExample(i) : i \in 1..MaxExamples}

\* Bodies of POST /api/examples and PUT /api/examples/:id: valid ones, a
\* count only, no title, an empty title, a count that is no number, tags
\* that are no array, and ids chosen by the client.
ExampleBodies ==
    {Body({Mem(S_title, JStr(W_b))}),
     Body({Mem(S_title, JStr(W_b)), Mem(S_tags, JArr(<<W_z>>)), Mem(S_count, JNum(Num(7)))}),
     Body({Mem(S_count, JNum(Num(7)))}),
     Body({}),
     Body({Mem(S_title, JStr(<<>>))}),
     Body({Mem(S_title, JStr(W_b)), Mem(S_count, JStr(W_x))}),
     Body({Mem(S_title, JStr(W_b)), Mem(S_tags, JStr(W_z))}),
     Body({Mem(S_title, JStr(W_b)), Mem(S_id, JStr(<<"0">>))}),
     Body({Mem(S_title, JStr(W_b)), Mem(S_id, JStr(<<"1">>))}),
     Body({Mem(S_title, JStr(W_b)), Mem(S_id, JStr(W_x))})}

\* Bodies of POST /api/examples/:id/tags.
TagsBodies ==
    {Body({Mem(S_tags, JArr(<<>>))}), Body({Mem(S_tags, JArr(<<W_z>>))}),
     Body({Mem(S_tags, JArr(<<W_x, W_z, W_z>>))}), Body({Mem(S_tags, JArr(<<W_y, W_x>>))}),
     Body({Mem(S_tags, JStr(W_z))}),
     Body({})}

\* Query strings of PATCH /api/examples/:id/increment.
IncrementQueries == Opt(S_value, {<<"5">>, <<"0">>, <<"-", "1">>, W_x, <<>>})

\* The increment of a count as the route is registered (PATCH), and the
\* same path asked for with GET.
IncrementRoutes ==
    {"PATCH /api/examples/:id/increment", "GET /api/examples/:id/increment"}

ExampleIds == {ObjectId(n) : n \in 1..MaxExamples} \cup {NotAnObjectId}

ExampleRoutes ==
    {"POST /api/examples", "GET /api/examples/:id", "PUT /api/examples/:id",
     "DELETE /api/examples/:id", "PATCH /api/examples/:id/increment",
     "POST /api/examples/:id/tags", "DELETE /api/examples/:id/tags/:tag"}

ProductRoutes ==
    {"POST /api/products", "GET /api/products/:id", "PUT /api/products/:id",
     "PATCH /api/products/:id", "DELETE /api/products/:id"}

\* Bodies of POST /api/products with an id chosen by the client.
ProductIdBodies ==
    {Body(ValidA \cup {Mem(S_id, JStr(<<"0">>))}),
     Body(ValidA \cup {Mem(S_id, JStr(<<"1">>))}),
     Body(ValidA \cup {Mem(S_id, JStr(W_x))})}

\* The requests of SpecOne for a route.
ExampleRequests(route) ==
    {[Request(route, <<>>, id, query, body) EXCEPT !.params.tag = tag] :
        id \in (IF route = "POST /api/examples" THEN {ObjectId(0)} ELSE ExampleIds),
        query \in (IF route \in IncrementRoutes THEN IncrementQueries ELSE {{}}),
        body \in (IF route \in {"POST /api/examples", "PUT /api/examples/:id"}
                  THEN ExampleBodies
                  ELSE IF route = "POST /api/examples/:id/tags" THEN TagsBodies
                  ELSE {Body({})}),
        tag \in (IF route = "DELETE /api/examples/:id/tags/:tag"
                 THEN {W_x, W_z} ELSE {<<>>})}

ProductRequests(route) ==
    {Request(route, authorization, id, {}, body) :
        authorization \in (IF route \in ProductWriteRoutes
                           THEN {<<>>, <<"Bearer", "jwt_u1">>, <<"Bearer", "jwt_u2">>}
                           ELSE {<<>>}),
        id \in (IF route \in WithId THEN ParamIds ELSE {ObjectId(0)}),
        body \in (IF route = "POST /api/products"
                  THEN ProductBodies \cup ProductIdBodies
                  ELSE IF route \in WithFields THEN ProductBodies
                  ELSE {Body({})})}

\* A request has been dispatched to the handlers of its route: a product
\* request on any product store, an example request on any example store.
InitOne ==
    /\ nodeEnv = "production"
    /\ removed = {}
    /\ flights = NoFlights
    /\ server = Serving
    /\ users = InitUsers
    /\ \/ /\ \E route \in ProductRoutes : \E r \in ProductRequests(route) :
                req = r /\ chain = Stack(route)
          /\ products \in ProductStores
          /\ examples = {}
          /\ nextId = MaxProducts
       \/ /\ \E route \in ExampleRoutes \cup IncrementRoutes :
                \E r \in ExampleRequests(route) :
                req = r /\ chain = Stack(route)
          /\ products = {}
          /\ examples \in ExampleStores
          /\ nextId = MaxExamples
    /\ pc = "run"
    /\ err = {}
    /\ responses = <<>>
    /\ ran = <<>>
    /\ lookups = 0
    /\ applied = <<>>

NextOne ==
    \/ protect
    \/ authorize
    \/ validators
    \/ createProduct
    \/ updateProduct
    \/ patchProduct
    \/ deleteProduct
    \/ getProductById
    \/ createExample
    \/ getExampleById
    \/ updateExample
    \/ deleteExample
    \/ incrementCount
    \/ addTags
    \/ removeTag
    \/ errorHandler
    \/ notFoundHandler

SpecOne == InitOne /\ [][NextOne]_vars

----------------------------------------------------------------------------
(* A run of requests to the example routes, starting on an empty store *)

MaxCreated == 1      \* ObjectIds the driver can hand out in SpecExample
MaxCount == 1        \* the largest count a record reaches in SpecExample

\* The bodies of POST /api/examples: a title, and a title with an _id the
\* client chose.
LifeCreateBodies ==
    {Body({Mem(S_title, JStr(W_b))}),
     Body({Mem(S_title, JStr(W_b)), Mem(S_id, JStr(<<"0">>))})}

LifeIds == {ObjectId(n) : n \in 0..MaxCreated} \cup {NotAnObjectId}

LifeRequests(route) ==
    {[Request(route, <<>>, id, query, body) EXCEPT !.params.tag = tag] :
        id \in (IF route = "POST /api/examples" THEN {ObjectId(0)} ELSE LifeIds),
        query \in (IF route = "PATCH /api/examples/:id/increment"
                   THEN Opt(S_value, {W_x}) ELSE {{}}),
        body \in (IF route = "POST /api/examples" THEN LifeCreateBodies
                  ELSE IF route = "PUT /api/examples/:id"
                  THEN {Body({Mem(S_title, JStr(W_a))})}
                  ELSE IF route = "POST /api/examples/:id/tags"
                  THEN {Body({Mem(S_tags, JArr(<<W_z>>))})}
                  ELSE {Body({})}),
        tag \in (IF route = "DELETE /api/examples/:id/tags/:tag"
                 THEN {W_z} ELSE {<<>>})}

\* A client sends a request to an example route.  The run ends before the
\* driver hands out more than MaxCreated ids or a count passes MaxCount.
NewExampleRequest ==
    \E route \in ExampleRoutes : \E r \in LifeRequests(route) :
        /\ (route = "POST /api/examples" /\ ~Has(r.body.fields, S_id)) =>
              nextId < MaxCreated
        /\ route = "PATCH /api/examples/:id/increment" =>
              \A d \in examples : d.count + incrementValue(r.query) <= MaxCount
        /\ dispatch(r)

NextExample ==
    \/ NewExampleRequest
    \/ requestEnd
    \/ validators
    \/ createExample
    \/ getExampleById
    \/ updateExample
    \/ deleteExample
    \/ incrementCount
    \/ addTags
    \/ removeTag
    \/ errorHandler

SpecExample == Init /\ [][NextExample]_vars

----------------------------------------------------------------------------
(* errorHandler on any error, in any environment *)

\* Values of NODE_ENV; "" is the variable left unset.
Envs == {"development", "production", "test", "staging", ""}

\* The errors handed to next(err): ApiErrors, and errors of the libraries
\* by their name (mongoose, jsonwebtoken, express-jwt, the MongoDB driver,
\* the JavaScript runtime).
ErrorNames ==
    {"ValidationError", "UnauthorizedError", "JsonWebTokenError",
     "TokenExpiredError", "NotBeforeError", "CastError", "MongoNetworkError",
     "MongoServerError", "TypeError", "SyntaxError", "Error"}

ErrorMessages == {"jwt malformed", "connect ECONNREFUSED 10.0.0.5:27017"}

Errors ==
    {ApiError(status, message) :
        status \in {400, 401, 403, 404, 409, 500}, message \in ErrorMessages}
    \cup {Thrown(name, message) : name \in ErrorNames, message \in ErrorMessages}

\* A handler of GET /api/products/:id has handed an error to next(err).
InitError ==
    /\ nodeEnv \in Envs
    /\ removed = {}
    /\ flights = NoFlights
    /\ server = Serving
    /\ users = InitUsers
    /\ products = {}
    /\ examples = {}
    /\ nextId = 0
    /\ req = Request("GET /api/products/:id", <<>>, ObjectId(1), {}, Body({}))
    /\ chain = Stack("GET /api/products/:id")
    /\ pc = "error"
    /\ err \in {{e} : e \in Errors}
    /\ responses = <<>>
    /\ ran = <<"getProductById">>
    /\ lookups = 0
    /\ applied = <<>>

NextError == errorHandler

SpecError == InitError /\ [][NextError]_vars

----------------------------------------------------------------------------
(* One request to the hello routes, the health route or an unknown path *)

HelloQueries ==
    {name \cup language :
        name \in Opt(S_name, {W_a, <<>>}) \cup {{Mem(S_name, JObj({Mem(W_a, JStr(W_b))}))}},
        language \in Opt(S_language, Languages \cup {W_x, <<>>})}

HelloBodies ==
    {Body(name \cup age \cup email) :
        name \in Opt(S_name, {W_a, <<>>}),
        age \in Opt(S_age, {<<"7">>, W_x}) \cup {{Mem(S_age, JNum(Num(5)))}},
        email \in Opt(S_email, {<<"a", "@", "b", ".", "i", "o">>, <<"a", "@", "b">>})}

\* The one-segment paths under /api/hello the clients of the model ask for.
HelloNames == {W_a, W_World, W_headers, W_query}

\* The routes that answer the requests of the model.
HelloRoutes ==
    {helloRoute("GET", <<>>), helloRoute("POST", <<>>), helloRoute("GET", <<W_a, W_b>>)}
    \cup {helloRoute("GET", <<n>>) : n \in HelloNames}
    \cup {"GET /api/health"}

HelloRequests(route) ==
    {[Request(route, <<>>, ObjectId(0), query, body) EXCEPT !.params.name = name] :
        query \in (IF route = "GET /api/hello/query" THEN HelloQueries ELSE {{}}),
        body \in (IF route = "POST /api/hello" THEN HelloBodies ELSE {Body({})}),
        name \in (IF route = "GET /api/hello/:name"
                  THEN {n \in HelloNames : helloRoute("GET", <<n>>) = route}
                  ELSE {<<>>})}

InitHello ==
    /\ nodeEnv \in {"production", "development"}
    /\ removed = {}
    /\ flights = NoFlights
    /\ server = Serving
    /\ users = InitUsers
    /\ products = {}
    /\ examples = {}
    /\ nextId = 0
    /\ \E route \in HelloRoutes : \E r \in HelloRequests(route) :
            req = r /\ chain = Stack(route)
    /\ pc = "run"
    /\ err = {}
    /\ responses = <<>>
    /\ ran = <<>>
    /\ lookups = 0
    /\ applied = <<>>

NextHello ==
    \/ validators
    \/ helloRoot
    \/ helloQuery
    \/ helloName
    \/ helloPost
    \/ health
    \/ notFoundHandler

SpecHello == InitHello /\ [][NextHello]_vars

----------------------------------------------------------------------------
(* GET /api/health in any environment, on any store, with any credential *)

InitHealth ==
    /\ nodeEnv \in Envs
    /\ removed = {}
    /\ flights = NoFlights
    /\ server = Serving
    /\ users \in SUBSET InitUsers
    /\ products \in ProductStores
    /\ examples \in ExampleStores
    /\ nextId = MaxProducts
    /\ \E authorization \in Headers :
            req = Request("GET /api/health", authorization, ObjectId(0), {}, Body({}))
    /\ chain = Stack("GET /api/health")
    /\ pc = "run"
    /\ err = {}
    /\ responses = <<>>
    /\ ran = <<>>
    /\ lookups = 0
    /\ applied = <<>>

NextHealth == health

SpecHealth == InitHealth /\ [][NextHealth]_vars

----------------------------------------------------------------------------
(* One request to any handler of the application *)

\* A bulk create has been dispatched, on an empty Product collection.
InitBulk ==
    /\ nodeEnv = "production"
    /\ removed = {}
    /\ flights = NoFlights
    /\ server = Serving
    /\ users = InitUsers
    /\ products = {}
    /\ examples = {}
    /\ nextId = 0
    /\ \E authorization \in {<<>>, <<"Bearer", "jwt_u1">>, <<"Bearer", "jwt_u2">>} :
       \E body \in BulkBodies :
            req = Request("POST /api/products/bulk", authorization, ObjectId(0), {}, body)
    /\ chain = Stack("POST /api/products/bulk")
    /\ pc = "run"
    /\ err = {}
    /\ responses = <<>>
    /\ ran = <<>>
    /\ lookups = 0
    /\ applied = <<>>

InitAll == InitOne \/ InitBulk \/ InitList \/ InitHello \/ InitHealth

NextAll ==
    \/ protect
    \/ authorize
    \/ validators
    \/ getProducts
    \/ createProduct
    \/ createBulkProducts
    \/ updateProduct
    \/ patchProduct
    \/ deleteProduct
    \/ getProductById
    \/ createExample
    \/ getExampleById
    \/ updateExample
    \/ deleteExample
    \/ incrementCount
    \/ addTags
    \/ removeTag
    \/ helloRoot
    \/ helloQuery
    \/ helloName
    \/ helloPost
    \/ health
    \/ errorHandler
    \/ notFoundHandler

SpecAll == InitAll /\ [][NextAll]_vars

----------------------------------------------------------------------------
(* index.ts and config/database.ts: the start of the process *)

\* The module has been loaded and startServer() is about to be called.
Loaded == [pc |-> "start", connected |-> FALSE, listens |-> 0, exitCode |-> {}]

\* connectDB (database.ts lines 7-20) once mongoose.connect has settled:
\* resolved, it returns; rejected, its catch logs and calls process.exit(1).
connectDBOutcomeMutant(s, resolved) ==
    [s EXCEPT !.pc = "connected", !.connected = resolved]

connectDBOutcome(s, resolved) ==
    IF resolved
    THEN [s EXCEPT !.pc = "connected", !.connected = TRUE]
    ELSE [s EXCEPT !.pc = "exited", !.exitCode = {1}]

\* startServer, line 45: await connectDB()
startServer ==
    /\ server.pc = "start"
    /\ server' = [server EXCEPT !.pc = "connecting"]
    /\ UNCHANGED <<nodeEnv, removed, flights, users, products, examples, nextId, req,
                   chain, pc, err, responses, ran, lookups, applied>>

connectDB ==
    /\ server.pc = "connecting"
    /\ \E resolved \in BOOLEAN : server' = connectDBOutcome(server, resolved)
    /\ UNCHANGED <<nodeEnv, removed, flights, users, products, examples, nextId, req,
                   chain, pc, err, responses, ran, lookups, applied>>

\* startServer, lines 47-51: app.listen(port, ...).  When the port cannot be
\* bound the server emits an 'error' event nobody handles and the process
\* ends with code 1.
listen ==
    /\ server.pc = "connected"
    /\ \E bound \in BOOLEAN :
          server' = IF bound
                    THEN [server EXCEPT !.pc = "listening", !.listens = @ + 1]
                    ELSE [server EXCEPT !.pc = "exited", !.exitCode = {1}]
    /\ UNCHANGED <<nodeEnv, removed, flights, users, products, examples, nextId, req,
                   chain, pc, err, responses, ran, lookups, applied>>

\* The listener accepts a request to a hello route or to the health route.
accept ==
    /\ server.pc = "listening"
    /\ \E route \in HelloRoutes : \E r \in HelloRequests(route) : dispatch(r)

InitStart ==
    /\ nodeEnv \in {"production", "development"}
    /\ removed = {}
    /\ flights = NoFlights
    /\ server = Loaded
    /\ users = InitUsers
    /\ products = {}
    /\ examples = {}
    /\ nextId = 0
    /\ req = NoRequest
    /\ chain = <<>>
    /\ pc = "idle"
    /\ err = {}
    /\ responses = <<>>
    /\ ran = <<>>
    /\ lookups = 0
    /\ applied = <<>>

NextStart ==
    \/ startServer
    \/ connectDB
    \/ listen
    \/ accept
    \/ requestEnd
    \/ validators
    \/ helloRoot
    \/ helloQuery
    \/ helloName
    \/ helloPost
    \/ health
    \/ notFoundHandler

SpecStart == InitStart /\ [][NextStart]_vars

----------------------------------------------------------------------------
(* incrementCount for requests in flight side by side *)

MaxFlights == 2      \* the clients whose requests are in flight side by side

Clients == 1..MaxFlights

\* A client that has sent nothing yet.
IdleFlight ==
    [pc |-> "idle", id |-> NotAnObjectId, query |-> {}, result |-> "none", status |-> 0]

FlightIds == {ObjectId(1), ObjectId(2), NotAnObjectId}

FlightQueries == Opt(S_value, {<<"5">>, <<"-", "1">>, <<"0">>})

\* incrementCount, lines 1031-1038, up to its await: the handler reads the
\* value and calls Example.findByIdAndUpdate; an id that is no ObjectId makes
\* the call throw a CastError without reaching the database.
incrementCountCall(i) ==
    /\ flights[i].pc = "idle"
    /\ \E id \in FlightIds, query \in FlightQueries :
          flights' = [flights EXCEPT ![i] =
                        [pc |-> IF id.valid THEN "awaiting" ELSE "settled",
                         id |-> id, query |-> query,
                         result |-> IF id.valid THEN "none" ELSE "castError",
                         status |-> 0]]
    /\ UNCHANGED <<nodeEnv, removed, server, users, products, examples, nextId, req,
                   chain, pc, err, responses, ran, lookups, applied>>

\* The database executes the findOneAndUpdate of the call: one atomic
\* update of the document with the id, on the store as it is then.
incrementCountUpdate(i) ==
    /\ flights[i].pc = "awaiting"
    /\ \E dbOk \in BOOLEAN :
       LET found == exampleFindById(flights[i].id)
       IN  IF ~dbOk
           THEN /\ flights' = [flights EXCEPT ![i].pc = "settled", ![i].result = "dbError"]
                /\ examples' = examples
           ELSE IF found = {}
           THEN /\ flights' = [flights EXCEPT ![i].pc = "settled", ![i].result = "null"]
                /\ examples' = examples
           ELSE LET doc == CHOOSE d \in found : TRUE
                IN  /\ examples' = (examples \ {doc})
                            \cup {incApplied(doc, incrementValue(flights[i].query))}
                    /\ flights' = [flights EXCEPT ![i].pc = "settled", ![i].result = "doc"]
    /\ UNCHANGED <<nodeEnv, removed, server, users, products, nextId, req,
                   chain, pc, err, responses, ran, lookups, applied>>

\* incrementCount, lines 1040-1056, after its await, and errorHandler for
\* what it forwards: the status of the response.
incrementCountRespond(i) ==
    /\ flights[i].pc = "settled"
    /\ flights' = [flights EXCEPT ![i].pc = "done", ![i].status =
            CASE flights[i].result = "doc" -> 200
              [] flights[i].result \in {"null", "castError"} -> errorStatus(exampleNotFound)
              [] OTHER -> errorStatus(Thrown("MongoNetworkError", "connection lost"))]
    /\ UNCHANGED <<nodeEnv, removed, server, users, products, examples, nextId, req,
                   chain, pc, err, responses, ran, lookups, applied>>

InitFlights ==
    /\ nodeEnv = "production"
    /\ removed = {}
    /\ flights = [i \in Clients |-> IdleFlight]
    /\ server = Serving
    /\ users = InitUsers
    /\ products = {}
    /\ examples = {CatalogueExample(1)}
    /\ nextId = 1
    /\ req = NoRequest
    /\ chain = <<>>
    /\ pc = "idle"
    /\ err = {}
    /\ responses = <<>>
    /\ ran = <<>>
    /\ lookups = 0
    /\ applied = <<>>

NextFlights ==
    \E i \in Clients :
        \/ incrementCountCall(i)
        \/ incrementCountUpdate(i)
        \/ incrementCountRespond(i)

SpecFlights == InitFlights /\ [][NextFlights]_vars

----------------------------------------------------------------------------
(* The User model and the auth routes *)

S_password == <<"p", "a", "s", "s", "w", "o", "r", "d">>

\* \w+([.-]?\w+)* on the characters a..b of s.
WordRun(s, a, b) ==
    /\ a <= b
    /\ IsWordChar(s[a]) /\ IsWordChar(s[b])
    /\ \A k \in a..b : IsWordChar(s[k]) \/ s[k] \in {".", "-"}
    /\ \A k \in a..(b - 1) : IsWordChar(s[k]) \/ IsWordChar(s[k + 1])

\* userSchema.email.match, lines 296-299:
\* /^\w+([.-]?\w+)*@\w+([.-]?\w+)*(\.\w{2,3})+$/
emailMatch(s) ==
    \E i \in 2..Len(s) : \E j \in (i + 2)..Len(s) :
        /\ s[i] = "@"
        /\ WordRun(s, 1, i - 1)
        /\ WordRun(s, i + 1, j - 1)
        /\ s[j] = "."
        /\ Len(s) - j \in {2, 3}
        /\ \A k \in (j + 1)..Len(s) : IsWordChar(s[k])

\* The text of a member of the body, <<>> when it is absent.
TextOf(fields, path) ==
    IF Has(fields, path) /\ Get(fields, path).t = "str" THEN Get(fields, path).s
    ELSE <<>>

\* userSchema, lines 284-320: the paths of a new document that fail
\* validation (required, maxlength, match, minlength).
userSchemaErrors(doc) ==
    (IF doc.name = <<>> \/ Len(doc.name) > 50 THEN {S_name} ELSE {})
    \cup (IF ~emailMatch(doc.email) THEN {S_email} ELSE {})
    \cup (IF Len(doc.password) < 6 THEN {S_password} ELSE {})

\* The rules of POST /api/auth/register, part_002 lines 293-304:
\* body('name').notEmpty(), body('email').isEmail(),
\* body('password').isLength({ min: 6 })
registerRules(fields) ==
    (IF notEmptyFails(fields, S_name) THEN {S_name} ELSE {})
    \cup (IF ~IsEmail(TextOf(fields, S_email)) THEN {S_email} ELSE {})
    \cup (IF Len(TextOf(fields, S_password)) < 6 THEN {S_password} ELSE {})

\* The unique index of userSchema.email, line 295: the insert of a document
\* is refused (E11000) when a stored document has its email.
emailTakenMutant(stored, email) == FALSE

emailTaken(stored, email) == \E u \in stored : u.email = email

\* The _id of the document the request of client i creates: each new
\* document gets an ObjectId no other document has.
NewUserId(i) ==
    CASE i = 1 -> "u3"
      [] i = 2 -> "u4"
      [] i = 3 -> "u5"
      [] OTHER -> "u6"

\* new User({ name, email, password }): trim on name, the default role.
NewUser(i, fields) ==
    UserDoc(NewUserId(i), Trimmed(TextOf(fields, S_name)), TextOf(fields, S_email),
            TextOf(fields, S_password), "user")

E_new == <<"c", "@", "x", ".", "i", "o">>
E_long == <<"c", "@", "x", ".", "i", "n", "f", "o">>
E_bad == <<"c", "@", "x">>
P_short == <<"a", "b", "c">>

RawPasswords == {P_secret, P_hunter, P_short}

RegisterBodies ==
    {{Mem(S_name, JStr(W_Ann)), Mem(S_email, JStr(e)), Mem(S_password, JStr(P_secret))} :
        e \in {E_ann, E_new, E_long, E_bad}}
    \cup {{Mem(S_name, JStr(W_Bob)), Mem(S_email, JStr(E_new)), Mem(S_password, JStr(p))} :
        p \in {P_hunter, P_short}}
    \cup {{Mem(S_email, JStr(E_new)), Mem(S_password, JStr(P_hunter))}}

\* A client that has sent no registration yet.
IdleRegistration ==
    [pc |-> "idle", fields |-> {}, doc |-> {}, result |-> "none", status |-> 0]

\* POST /api/auth/register up to the insert: the rules of the route run,
\* then registerUser creates the document, which Mongoose validates and
\* whose pre('save') hook hashes the password.  The handler may read the
\* result of the rules and answer 400 itself.
registerUser(i) ==
    /\ flights[i].pc = "idle"
    /\ \E fields \in RegisterBodies, readsRules \in BOOLEAN, salt \in Salts :
       LET doc == NewUser(i, fields)
       IN  flights' = [flights EXCEPT ![i] =
             IF readsRules /\ registerRules(fields) # {}
             THEN [pc |-> "settled", fields |-> fields, doc |-> {},
                   result |-> "rules", status |-> 0]
             ELSE IF userSchemaErrors(doc) # {}
             THEN [pc |-> "settled", fields |-> fields, doc |-> {},
                   result |-> "validationError", status |-> 0]
             ELSE [pc |-> "saving", fields |-> fields,
                   doc |-> {preSave(doc, TRUE, salt)},
                   result |-> "none", status |-> 0]]
    /\ UNCHANGED <<nodeEnv, removed, server, users, products, examples, nextId, req,
                   chain, pc, err, responses, ran, lookups, applied>>

\* The database executes the insertOne of the save: one atomic insert, which
\* the unique index on email refuses when the email is stored already.
userInsert(i) ==
    /\ flights[i].pc = "saving"
    /\ \E dbOk \in BOOLEAN :
       LET doc == CHOOSE d \in flights[i].doc : TRUE
       IN  IF ~dbOk
           THEN /\ flights' = [flights EXCEPT ![i].pc = "settled", ![i].result = "dbError"]
                /\ users' = users
           ELSE IF emailTaken(users, doc.email)
           THEN /\ flights' = [flights EXCEPT ![i].pc = "settled", ![i].result = "duplicate"]
                /\ users' = users
           ELSE /\ flights' = [flights EXCEPT ![i].pc = "settled", ![i].result = "created"]
                /\ users' = users \cup {doc}
    /\ UNCHANGED <<nodeEnv, removed, server, products, examples, nextId, req,
                   chain, pc, err, responses, ran, lookups, applied>>

\* registerUser after its await, and errorHandler for what it forwards: the
\* status of the response.
registerRespond(i) ==
    /\ flights[i].pc = "settled"
    /\ flights' = [flights EXCEPT ![i].pc = "done", ![i].status =
            CASE flights[i].result = "created" -> 201
              [] flights[i].result = "rules" -> errorStatus(ApiError(400, "Validation error"))
              [] flights[i].result = "validationError" ->
                    errorStatus(Thrown("ValidationError", "User validation failed"))
              [] flights[i].result = "duplicate" ->
                    errorStatus(Thrown("MongoServerError", "E11000 duplicate key"))
              [] OTHER -> errorStatus(Thrown("MongoNetworkError", "connection lost"))]
    /\ UNCHANGED <<nodeEnv, removed, server, users, products, examples, nextId, req,
                   chain, pc, err, responses, ran, lookups, applied>>

\* A query without a projection: the paths declared select: false (password,
\* line 305) are left out of the documents it returns.
UserFind(stored, id) ==
    {[f \in DOMAIN u \ {"password"} |-> u[f]] : u \in {v \in stored : v.id = id}}

\* getMe answers with the user of the request, read by a default query.
getMe ==
    /\ AtHandler("getMe")
    /\ \E dbOk \in BOOLEAN :
       IF ~dbOk
       THEN /\ Forward(Thrown("MongoNetworkError", "connection lost"))
            /\ ran' = ran \o <<"getMe", "dbError">>
       ELSE /\ Send(200, [success |-> TRUE,
                          data |-> UNION {UserFind(users, u.id) : u \in req.user}])
            /\ ran' = Append(ran, "getMe")
    /\ UNCHANGED <<nodeEnv, removed, flights, server, users, products, examples, nextId,
                   req, lookups, applied>>

MeTokens == {"jwt_u1", "jwt_u3", "jwt_u2_badsig"}

\* A client asks for GET /api/auth/me.
meRequest ==
    \E authorization \in {<<>>} \cup {<<"Bearer", t>> : t \in MeTokens} :
        dispatch(Request("GET /api/auth/me", authorization, ObjectId(0), {}, Body({})))

InitRegister ==
    /\ nodeEnv = "production"
    /\ removed = {}
    /\ flights = [i \in Clients |-> IdleRegistration]
    /\ server = Serving
    /\ users = InitUsers
    /\ products = {}
    /\ examples = {}
    /\ nextId = 0
    /\ req = NoRequest
    /\ chain = <<>>
    /\ pc = "idle"
    /\ err = {}
    /\ responses = <<>>
    /\ ran = <<>>
    /\ lookups = 0
    /\ applied = <<>>

NextRegister ==
    \/ \E i \in Clients :
        \/ registerUser(i)
        \/ userInsert(i)
        \/ registerRespond(i)
    \/ meRequest
    \/ protect
    \/ getMe
    \/ errorHandler
    \/ requestEnd

SpecRegister == InitRegister /\ [][NextRegister]_vars

----------------------------------------------------------------------------
(* Properties *)

\* The handlers that ran for the request in flight.
Ran == SeqToSet(ran)

\* The response of the request, once it is sent.
Sent == pc = "done" /\ Len(responses) = 1

Status == responses[1].status

\* The tokens that verify: correctly signed and not expired.
GoodJwts == {t \in Jwts : JwtPayload(t).signed /\ ~JwtPayload(t).expired}

\* The Authorization header carries no bearer credential: it is absent, its
\* scheme does not begin with 'Bearer', or nothing follows the scheme.
NoCredential(h) ==
    \/ h = <<>>
    \/ h[1] \notin {"Bearer", "BearerX"}
    \/ Len(h) < 2
    \/ h[2] = ""

\* The header carries the token t.
Carries(h, t) == ~NoCredential(h) /\ h[2] = t

\* C1, part 1: a controller of a product-mutating route has run only if the
\* request carries a token that verifies and protect attached the user the
\* token names, whose role is 'admin'.
C1_WriterNeedsAdmin ==
    \A h \in ProductWriters :
        h \in Ran =>
            \E t \in GoodJwts :
                /\ Carries(req.authorization, t)
                /\ {[id |-> u.id, role |-> u.role] : u \in req.user}
                        = {[id |-> JwtPayload(t).id, role |-> "admin"]}

\* C1, part 2: on POST /api/products a request without a bearer token is
\* answered 401, the request of an authenticated user who is no admin is
\* answered 403, and the valid create of an admin is answered 201 unless the
\* database fails.
C1_CreateStatus ==
    (Sent /\ req.route = "POST /api/products") =>
        /\ NoCredential(req.authorization) => Status = 401
        /\ (req.user # {} /\ \A u \in req.user : u.role # "admin") => Status = 403
        /\ (/\ \E u \in req.user : u.role = "admin"
            /\ req.body \in {Body(ValidA), Body(ValidB)}
            /\ "dbError" \notin Ran) => Status = 201

\* C1, part 3: the product store changes only in a step of a controller of a
\* product-mutating route, taken for a request with an admin attached, that
\* answers 200 or 201; so it is unchanged by a request answered 401 or 403.
C1_WriteStep ==
    products' # products =>
        /\ \E h \in ProductWriters : AtHandler(h)
        /\ \E u \in req.user : u.role = "admin"
        /\ pc' = "done"
        /\ responses'[1].status \in {200, 201}

\* C1: product writes are reached only by an authenticated admin; without a
\* token the create is answered 401, as a non-admin 403, as an admin 201, and
\* the store is unchanged in the 401 and 403 cases.
C1_AdminOnlyProductWrites ==
    /\ [](C1_WriterNeedsAdmin /\ C1_CreateStatus)
    /\ [][C1_WriteStep]_vars

\* A non-admin's create is answered 403 on a store that an admin's create
\* has filled before.
C1_Witness ==
    /\ Sent
    /\ req.route = "POST /api/products"
    /\ Carries(req.authorization, "jwt_u2")
    /\ Status = 403
    /\ products # {}

\* C2: when the Authorization header of a request to a protected route has no
\* bearer credential, protect forwards the 401 'no token' error, attaches no
\* user, looks no user up, and no later handler of the route runs.
C2_NoTokenUnauthorized ==
    ("protect" \in Ran /\ NoCredential(req.authorization)) =>
        /\ err = {ApiError(401, "Not authorized, no token")}
        /\ req.user = {}
        /\ lookups = 0
        /\ Ran \subseteq {"protect", "errorHandler"}
        /\ Sent => (Status = 401 /\ responses[1].body.error = "Not authorized, no token")

\* A request with a Basic credential has been answered 401.
C2_Witness ==
    /\ Sent
    /\ req.route \in ProductWriteRoutes
    /\ req.authorization = <<"Basic", "jwt_u1">>
    /\ Status = 401

\* C3: when the bearer credential fails verification (malformed, bad
\* signature or expired), protect forwards the 401 'invalid token' error,
\* attaches no user, and no later handler of the route runs.
C3_InvalidTokenUnauthorized ==
    (/\ "protect" \in Ran
     /\ ~NoCredential(req.authorization)
     /\ req.authorization[2] \notin GoodJwts) =>
        /\ err = {ApiError(401, "Not authorized, invalid token")}
        /\ req.user = {}
        /\ Ran \subseteq {"protect", "errorHandler"}
        /\ Sent => (Status = 401 /\ responses[1].body.error = "Not authorized, invalid token")

\* A request with an expired token has been answered 401.
C3_Witness ==
    /\ Sent
    /\ Carries(req.authorization, "jwt_u1_expired")
    /\ Status = 401

\* C4, the step: protect, given a token that verifies and names an identity
\* with no stored user record, attaches no user and forwards a 401 error,
\* which is 'user not found' whenever the lookup is answered.
C4_ProtectStep ==
    (/\ AtHandler("protect")
     /\ ran' # ran
     /\ \E t \in GoodJwts :
            /\ Carries(req.authorization, t)
            /\ \A u \in users : u.id # JwtPayload(t).id) =>
        /\ pc' = "error"
        /\ req'.user = {}
        /\ \E e \in err' : e.statusCode = 401
        /\ "dbError" \notin SeqToSet(ran') =>
               err' = {ApiError(401, "Not authorized, user not found")}

\* C4, the state: a handler after protect runs only with a user attached, and
\* a request that protect rejected is answered 401.
C4_Rejected ==
    /\ (Ran \ {"protect", "errorHandler", "dbError"} # {} /\ "protect" \in Ran)
           => req.user # {}
    /\ (Sent /\ "protect" \in Ran /\ req.user = {}) => Status = 401

\* C4: a correctly signed, unexpired token that names an identity with no
\* stored user is rejected with 401 'user not found'; the user is read from
\* the store on every request, so after a user is removed every request with
\* a token of that user is answered 401 and reaches no handler.
C4_RemovedUserRejected ==
    /\ [][C4_ProtectStep]_vars
    /\ []C4_Rejected

\* The admin has been removed and a write request with the admin's token has
\* been answered 401 'user not found' without reaching the controller.
C4_Witness ==
    /\ Sent
    /\ Carries(req.authorization, "jwt_u1")
    /\ \A u \in users : u.id # "u1"
    /\ Status = 401
    /\ responses[1].body.error = "Not authorized, user not found"
    /\ Ran = {"protect", "errorHandler"}

\* C5: authorize(roles) continues exactly when a user is attached whose role
\* is in roles; it forwards a 403 error when a user is attached whose role is
\* not in roles, and a 401 error when no user is attached.
C5_AuthorizeStep ==
    (AtHandler("authorize") /\ ran' # ran) =>
        LET roles == Head(chain).roles
            allowed == \E u \in req.user : u.role \in roles
        IN  /\ (pc' = "run" /\ chain' = Tail(chain) /\ err' = {}) <=> allowed
            /\ (req.user # {} /\ ~allowed) =>
                   (pc' = "error" /\ \E e \in err' : e.name = "ApiError" /\ e.statusCode = 403)
            /\ req.user = {} =>
                   (pc' = "error" /\ \E e \in err' : e.name = "ApiError" /\ e.statusCode = 401)

C5_AuthorizeIffRole == [][C5_AuthorizeStep]_vars

\* authorize ran on a request with no user attached, which was answered 401.
C5_Witness ==
    /\ Sent
    /\ "authorize" \in Ran
    /\ req.user = {}
    /\ Status = 401

\* The request in flight is a GET /api/products that getProducts answered 200.
Listed == Sent /\ req.route = "GET /api/products" /\ Status = 200

\* n = ceil(t / l), for l # 0
IsCeil(n, t, l) ==
    IF l > 0 THEN (n - 1) * l < t /\ t <= n * l
    ELSE (n - 1) * l > t /\ t >= n * l

\* C6: the 200 response of GET /api/products, for effective page p, effective
\* limit l and t documents matching the applied filter, has totalItems = t,
\* totalPages = ceil(t / l), next present iff p * l < t and prev present iff
\* p > 1.
C6_PaginationSummary ==
    Listed =>
        LET pg == responses[1].body.pagination
            p == pageOf(req.query)
            l == limitOf(req.query)
            t == pg.totalItems
        IN  /\ \E strictQuery \in BOOLEAN :
                   t = countDocuments(applied[1].filter, strictQuery)
            /\ IsCeil(pg.totalPages, t, l)
            /\ pg.next # {} <=> p * l < t
            /\ pg.prev # {} <=> p > 1

\* The filter that holds the full-text search condition only.
TextOnly(search) == {Mem(S_text, JObj({Mem(S_searchOp, search)}))}

\* C7: when search is given (present and not empty), the filter handed to
\* the item query and to the count is the full-text search condition only,
\* whatever other filters the request has, and, the database working, the
\* request is answered 200 with every product that matches the search term
\* counted.
C7_SearchDiscardsOtherFilters ==
    (/\ req.route = "GET /api/products"
     /\ "getProducts" \in Ran
     /\ "dbError" \notin Ran
     /\ Given(req.query, S_search)) =>
        /\ applied = <<[op |-> "find", filter |-> TextOnly(Get(req.query, S_search))],
                       [op |-> "countDocuments",
                        filter |-> TextOnly(Get(req.query, S_search))]>>
        /\ Sent =>
               /\ Status = 200
               /\ responses[1].body.pagination.totalItems =
                      Cardinality({d \in products :
                                      TextMatch(d, Get(req.query, S_search).s)})

\* The reserved parameters of GET /api/products.
Reserved ==
    {S_select, S_sort, S_page, S_limit, S_search, S_minPrice, S_maxPrice}

Tokens == {<<"g", "t">>, <<"g", "t", "e">>, <<"l", "t">>, <<"l", "t", "e">>, <<"i", "n">>}

\* The end of the run of characters of one kind (word characters or others)
\* that starts at position i.
RECURSIVE RunEnd(_, _)
RunEnd(e, i) ==
    IF i < Len(e) /\ (IsWordChar(e[i + 1]) <=> IsWordChar(e[i]))
    THEN RunEnd(e, i + 1) ELSE i

\* The text e from position i on with a '$' put before every run that is one
\* of the five tokens.
RECURSIVE DollarTokens(_, _)
DollarTokens(e, i) ==
    IF i > Len(e) THEN <<>>
    ELSE LET j == RunEnd(e, i)
             run == SubSeq(e, i, j)
         IN  (IF run \in Tokens THEN <<"$">> \o run ELSE run) \o DollarTokens(e, j + 1)

\* String b is string a with its whole-word tokens, as they stand in the
\* serialized text of a, rewritten.
Rewritten(a, b) == Escape(b) = DollarTokens(Escape(a), 1)

\* Value w is value v rewritten: a string, or an object of strings.
RewrittenValue(v, w) ==
    /\ v.t = w.t
    /\ v.t = "str" => Rewritten(v.s, w.s)
    /\ v.t = "obj" =>
           /\ Cardinality(v.o) = Cardinality(w.o)
           /\ \A m \in v.o : \E n \in w.o :
                  Rewritten(m.k, n.k) /\ n.v.t = "str" /\ m.v.t = "str"
                  /\ Rewritten(m.v.s, n.v.s)

\* C8: without search, minPrice and maxPrice the filter handed to the
\* database is the query without the reserved parameters, in which every
\* whole-word token gt, gte, lt, lte, in of the serialized text, in a field
\* name, in an object key or in a string value, has a '$' put before it and
\* nothing else is changed; no reserved parameter is ever a field of the filter.
C8_BaseFilterRewrite ==
    (req.route = "GET /api/products" /\ applied # <<>>) =>
        LET filter == applied[1].filter
            kept == {m \in req.query : m.k \notin Reserved}
        IN  /\ \A i \in 1..Len(applied) : applied[i].filter = filter
            /\ ~Given(req.query, S_search) => Keys(filter) \cap Reserved = {}
            /\ (/\ ~Given(req.query, S_search)
                /\ ~Given(req.query, S_minPrice)
                /\ ~Given(req.query, S_maxPrice)) =>
                   /\ Cardinality(filter) = Cardinality(kept)
                   /\ \A m \in kept : \E n \in filter :
                          Rewritten(m.k, n.k) /\ RewrittenValue(m.v, n.v)

\* category=in was handed to the database as category = '$in'.
C8_Witness ==
    /\ Sent
    /\ req.query = {Mem(S_category, JStr(W_in))}
    /\ applied[1].filter = {Mem(S_category, JStr(S_in))}

\* The parameter is given as the text of a number.
Numeric(query, k) ==
    Has(query, k) /\ Get(query, k).t = "str" /\ ~parseInt(Get(query, k).s).nan

\* The parameter is given as a text that is not empty and holds no number.
NonNumeric(query, k) ==
    Given(query, k) /\ Get(query, k).t = "str" /\ parseInt(Get(query, k).s).nan

\* C9: when minPrice or maxPrice is given as a number and search is absent,
\* the request succeeds whatever the query's own condition on price is, and
\* the applied filter is the base filter with price >= minPrice and
\* price <= maxPrice added: the conditions on other fields and the query's own
\* conditions on price (other than its own $gte and $lte) are kept.
C9_PriceRangeMerged ==
    LET q == req.query
        base == baseFilter(q).v.o
    IN  (/\ Sent
         /\ req.route = "GET /api/products"
         /\ "dbError" \notin Ran
         /\ Numeric(q, S_minPrice) \/ Numeric(q, S_maxPrice)
         /\ ~NonNumeric(q, S_minPrice) /\ ~NonNumeric(q, S_maxPrice)
         /\ ~Has(q, S_search)
         /\ \A strictQuery \in BOOLEAN : ~FilterFails(base, strictQuery)) =>
            /\ Status = 200
            /\ \A m \in base : m.k # S_price => m \in applied[1].filter
            /\ Has(applied[1].filter, S_price)
            /\ (Has(base, S_price) /\ Get(base, S_price).t = "obj") =>
                   {m \in Get(base, S_price).o : m.k \notin {S_gte, S_lte}}
                       \subseteq Get(applied[1].filter, S_price).o
            /\ Numeric(q, S_minPrice) =>
                   Mem(S_gte, JNum(parseInt(Get(q, S_minPrice).s)))
                       \in Get(applied[1].filter, S_price).o
            /\ Numeric(q, S_maxPrice) =>
                   Mem(S_lte, JNum(parseInt(Get(q, S_maxPrice).s)))
                       \in Get(applied[1].filter, S_price).o

\* C10: a page, limit, minPrice or maxPrice that is no number never makes
\* GET /api/products answer with an error: page falls back to 1, limit to 10,
\* and a minPrice or maxPrice that is no number adds no condition on price to
\* the applied filter.  (Stated for queries that hold these four parameters
\* only, each of them a positive number or no number.)
C10_NonNumericLenient ==
    LET q == req.query
        four == {S_page, S_limit, S_minPrice, S_maxPrice}
    IN  (/\ Sent
         /\ req.route = "GET /api/products"
         /\ "dbError" \notin Ran
         /\ Keys(q) \subseteq four
         /\ \A k \in Keys(q) :
                NonNumeric(q, k) \/ (Numeric(q, k) /\ parseInt(Get(q, k).s).n > 0)
         /\ \E k \in Keys(q) : NonNumeric(q, k)) =>
            /\ Status = 200
            /\ NonNumeric(q, S_page) =>
                   /\ responses[1].body.pagination.prev = {}
                   /\ \A n \in responses[1].body.pagination.next : n.page = 2
            /\ NonNumeric(q, S_limit) =>
                   /\ \A n \in responses[1].body.pagination.next : n.limit = 10
                   /\ IsCeil(responses[1].body.pagination.totalPages,
                             responses[1].body.pagination.totalItems, 10)
            /\ NonNumeric(q, S_minPrice) =>
                   \A m \in applied[1].filter :
                       m.k = S_price => S_gte \notin Keys(m.v.o)
            /\ NonNumeric(q, S_maxPrice) =>
                   \A m \in applied[1].filter :
                       m.k = S_price => S_lte \notin Keys(m.v.o)


\* The controllers that address one record by req.params.id.
ProductIdHandlers == {"getProductById", "updateProduct", "patchProduct", "deleteProduct"}

ExampleIdHandlers ==
    {"getExampleById", "updateExample", "deleteExample", "incrementCount",
     "addTags", "removeTag"}

IdRoutes == WithId \cup (ExampleRoutes \ {"POST /api/examples"})

\* req.params.id is no ObjectId, or no record of the handler's collection has it.
NoSuchRecord(h) ==
    \/ ~req.params.id.valid
    \/ h \in ProductIdHandlers /\ findById(req.params.id) = {}
    \/ h \in ExampleIdHandlers /\ exampleFindById(req.params.id) = {}

\* The body is one the handler rejects before it looks for the record.
BodyRejected(h) == h = "addTags" /\ isArrayFails(req.body.fields)

\* C11, the controller's step: with an id that is no ObjectId, or one that
\* no record has, an id-addressed controller leaves both stores as they are
\* and forwards an ApiError with status 404.  The only other outcomes are
\* the 400 of addTags for a body without a tags array, and, for a
\* well-formed id, the failure of the database and the ValidationError of an
\* update whose values the schema rejects.
C11_IdStep ==
    \A h \in ProductIdHandlers \cup ExampleIdHandlers :
        (AtHandler(h) /\ NoSuchRecord(h)) =>
            /\ products' = products
            /\ examples' = examples
            /\ pc' = "error"
            /\ \A e \in err' :
                \/ e.name = "ApiError" /\ e.statusCode = 404 /\ ~BodyRejected(h)
                \/ e.name = "ApiError" /\ e.statusCode = 400 /\ BodyRejected(h)
                \/ req.params.id.valid /\ "dbError" \in SeqToSet(ran')
                \/ /\ req.params.id.valid
                   /\ e.name = "ValidationError"
                   /\ h \in {"updateProduct", "patchProduct", "updateExample"}

\* C11, the response: a request with an id that is no ObjectId is never
\* answered 500 nor with a success, and it is answered 404 whenever its
\* controller ran and did not reject the body first; a 404 forwarded by a
\* controller is the status of the response.
C11_IdAnswer ==
    (Sent /\ req.route \in IdRoutes) =>
        /\ ~req.params.id.valid =>
              /\ Status \in {400, 401, 403, 404}
              /\ \A h \in (ProductIdHandlers \cup ExampleIdHandlers) \cap Ran :
                    ~BodyRejected(h) => Status = 404
        /\ \A e \in err : (e.name = "ApiError" /\ e.statusCode = 404) => Status = 404

\* C11: every id-addressed operation on products and examples answers an id
\* that is syntactically invalid with 404, never 500, and leaves the store
\* unchanged; likewise for a well-formed id that no stored record has.
C11_InvalidIdNotFound == [](C11_IdAnswer) /\ [][C11_IdStep]_vars

\* incrementCount has answered 404 to an id that is no ObjectId.
C11_Witness ==
    /\ Sent
    /\ "incrementCount" \in Ran
    /\ ~req.params.id.valid
    /\ Status = 404
    /\ examples # {}


\* The delete itself: deleteExample removes exactly the record with the
\* id and answers 200 with an empty data payload; when no record has the id
\* it changes nothing and forwards 404 (or the failure of the database).
C12_DeleteStep ==
    AtHandler("deleteExample") =>
        IF exampleFindById(req.params.id) # {} /\ pc' = "done"
        THEN /\ examples' = {d \in examples : d.id # req.params.id.n}
             /\ responses'[1] = [status |-> 200, body |-> [success |-> TRUE, data |-> {}]]
        ELSE /\ examples' = examples
             /\ pc' = "error"
             /\ \/ "dbError" \in SeqToSet(ran')
                \/ \A e \in err' : e.name = "ApiError" /\ e.statusCode = 404

\* The delete of the record with this id has just been answered 200.
Deleted(id) ==
    Sent /\ req.route = "DELETE /api/examples/:id" /\ req.params.id = id /\ Status = 200

\* A get, update or delete of this id is answered 404 (the database answering).
Gone(id) ==
    (/\ Sent
     /\ req.route \in {"GET /api/examples/:id", "PUT /api/examples/:id",
                       "DELETE /api/examples/:id"}
     /\ req.params.id = id
     /\ "dbError" \notin Ran) => Status = 404

\* C12: deleting a record that does not exist returns 404 and changes
\* nothing; deleting an existing record returns 200 with an empty payload and
\* removes exactly that record; and once a delete has succeeded, every later
\* get, update or delete of the same id returns 404 for the rest of the run.
\* (removed holds the ids successful deletes have removed so far; the answer
\* of the removing delete itself is the only 200 the statement allows.)
C12_DeletedStaysGone ==
    \A id \in LifeIds :
        (id.valid /\ id.n \in removed /\ ~Deleted(id)) => Gone(id)


\* The record req.params.id names, in a state where it is stored.
TargetProduct == CHOOSE d \in findById(req.params.id) : TRUE

TargetExample == CHOOSE d \in exampleFindById(req.params.id) : TRUE

ProductFieldNames == StringPaths \cup {S_price}

\* C13, PUT: after a successful PUT the stored record is the one built from
\* the body alone, so a successful body carries every required field and a
\* field it leaves out does not keep its previous value.
C13_PutStep ==
    /\ (AtHandler("updateProduct") /\ pc' = "done") =>
          /\ ProductFieldNames \subseteq Keys(req.body.fields)
          /\ products' = (products \ {TargetProduct})
                            \cup {newProduct(req.body.fields, TargetProduct.id)}
    /\ (AtHandler("updateExample") /\ pc' = "done") =>
          /\ Has(req.body.fields, S_title)
          /\ examples' = (examples \ {TargetExample})
                            \cup {newExample(req.body.fields, TargetExample.id)}

\* C13, PATCH: after a successful PATCH a field the body leaves out keeps
\* its previous value.
C13_PatchStep ==
    (AtHandler("patchProduct") /\ pc' = "done") =>
        products' = (products \ {TargetProduct})
                       \cup {updatedProduct(TargetProduct, req.body.fields)}

\* C13, the difference: a successful PUT with a partial body does not leave
\* the record that the merge of the same body leaves.
C13_PutDiffers ==
    (/\ AtHandler("updateProduct")
     /\ pc' = "done"
     /\ ~(ProductFieldNames \subseteq Keys(req.body.fields))) =>
        products' # (products \ {TargetProduct})
                       \cup {updatedProduct(TargetProduct, req.body.fields)}

\* C13: PUT on a product or an example replaces the record by the body,
\* PATCH on a product merges the body into it, and the two leave different
\* records for the same partial body.
C13_PutReplacesPatchMerges ==
    [][C13_PutStep /\ C13_PatchStep /\ C13_PutDiffers]_vars


\* The controllers of the routes that declare validation rules.
RuleHandlers ==
    {"createProduct", "updateProduct", "createExample", "updateExample", "addTags"}

\* C14, the controller's step: when the rules of the route found a failing
\* field (validationResult(req) is not empty), the controller performs no
\* persistence operation and forwards a 400.
C14_RejectStep ==
    \A h \in RuleHandlers :
        (AtHandler(h) /\ req.validation # {}) =>
            /\ products' = products
            /\ examples' = examples
            /\ "dbError" \notin SeqToSet(ran')
            /\ pc' = "error"
            /\ \A e \in err' : e.name = "ApiError" /\ e.statusCode = 400

\* C14, the response: a request whose body violates a rule of its route, and
\* which reached the rules, is answered 400.
C14_RejectAnswer ==
    (Sent /\ req.validation # {}) => Status = 400

\* C14: on every route that declares validation rules a request that
\* violates a rule is rejected with a 400 that reports the failing fields,
\* and no persistence operation is performed for it.
C14_RuleViolationRejected == [](C14_RejectAnswer) /\ [][C14_RejectStep]_vars


\* The error handler has answered the request.
Handled == Sent /\ ran[Len(ran)] = "errorHandler"

\* The error the handler was given.
TheError == CHOOSE e \in err : TRUE

C16_TokenErrorUnauthorized ==
    (Handled /\ TheError.name \in {"JsonWebTokenError", "TokenExpiredError",
                                   "NotBeforeError"}) => Status = 401

\* C17: the response of the error handler carries a stack trace in every
\* environment other than 'production', and none in production.
C17_StackOutsideProduction ==
    Handled => (responses[1].body.stack # {} <=> nodeEnv # "production")


\* C18: on every route under the API prefix the body of a success response
\* has success: true, and the body of an error response (status 400 or
\* above, validation failures and unmatched routes included) has
\* success: false and an error message.
C18_ResponseEnvelope ==
    Sent =>
        LET body == responses[1].body
        IN  IF Status < 400
            THEN "success" \in DOMAIN body /\ body.success = TRUE
            ELSE /\ "success" \in DOMAIN body /\ body.success = FALSE
                 /\ "error" \in DOMAIN body


\* How many times the handler or event x is in ran.
Times(x) == Cardinality({i \in DOMAIN ran : ran[i] = x})

\* C19: when a persistence operation fails during a request, in a
\* controller or in the user lookup of protect, the operation is not tried
\* again and the failure is not suppressed: the error handler runs once for
\* it and the response is 500 with the generic message.
C19_PersistenceFailureIs500 ==
    (Sent /\ "dbError" \in Ran) =>
        /\ Times("dbError") = 1
        /\ Times("errorHandler") = 1
        /\ Status = 500
        /\ responses[1].body.error = "Server Error"

\* The routes that declare both validation rules and an auth check.
RuleAndAuthRoutes == {"POST /api/products", "PUT /api/products/:id"}

\* C20: on a route with validation rules and an auth check the rules run
\* before protect and authorize, and these before the controller; so a
\* request that is both invalid and unauthenticated is answered 400, not 401.
C20_ValidationBeforeAuth ==
    req.route \in RuleAndAuthRoutes =>
        /\ \A i, j \in DOMAIN ran :
              (ran[i] = "validators" /\ ran[j] \in {"protect", "authorize"}) => i < j
        /\ \A i, j \in DOMAIN ran :
              (ran[i] \in {"validators", "protect", "authorize"}
               /\ ran[j] \in {"createProduct", "updateProduct"}) => i < j
        /\ (/\ Sent
            /\ productRules(req.body.fields) # {}
            /\ NoCredential(req.authorization)) => Status = 400


\* C25: GET /api/health responds 200 with success true, the message
\* 'API is running', a timestamp and the environment name in every state of
\* the system, whatever credential the request carries, without a call to
\* the persistence layer.
C25_HealthStatic ==
    (pc = "done" /\ req.route = "GET /api/health") =>
        /\ Len(responses) = 1
        /\ Status = 200
        /\ responses[1].body.success = TRUE
        /\ responses[1].body.message = "API is running"
        /\ responses[1].body.timestamp # {}
        /\ responses[1].body.environment # {}
        /\ lookups = 0
        /\ ran = <<"health">>


\* The segments after /api/hello of the path of a request the hello router
\* answered.
HelloPath(r) ==
    CASE r.route = "GET /api/hello/:name" -> <<r.params.name>>
      [] r.route = "GET /api/hello/query" -> <<W_query>>
      [] r.route = "GET /api/hello/headers" -> <<W_headers>>
      [] OTHER -> <<>>

\* C27: GET /api/hello/headers is answered by the headers greeting handler:
\* 200 with the greeting of the x-language header addressed to the x-name
\* header and a headers object echoing both, and not by the handler of
\* /hello/:name.
C27_HeadersGreeting ==
    (pc = "done" /\ HelloPath(req) = <<W_headers>>) =>
        /\ "helloName" \notin Ran
        /\ Status = 200
        /\ \E xName \in {<<>>, W_a}, xLanguage \in {<<>>} \cup Languages :
              responses[1].body = helloHeadersBody(xName, xLanguage)


\* How many times x occurs in the sequence q.
Occurrences(q, x) == Cardinality({i \in DOMAIN q : q[i] = x})

\* The tag list of the body of an add-tags request that passed the
\* Array.isArray test of addTags.
RequestTags == ArrItems(Get(req.body.fields, S_tags))

\* C29, one step: addTags answering 200 leaves the tags that were stored in
\* place, appends each tag of the request that was not stored exactly once,
\* changes no other field of the record and no other record; a request
\* whose tags are all stored already (the same request applied again)
\* changes nothing.
C29_AddTagsStep ==
    (AtHandler("addTags") /\ pc' = "done" /\ responses'[1].status = 200) =>
        LET old == TargetExample
            new == CHOOSE d \in examples' : d.id = old.id
            S == old.tags
            T == RequestTags
        IN  /\ examples' \ {new} = examples \ {old}
            /\ [new EXCEPT !.tags = S] = old
            /\ SeqToSet(new.tags) = SeqToSet(S) \cup SeqToSet(T)
            /\ SubSeq(new.tags, 1, Len(S)) = S
            /\ \A t \in SeqToSet(T) \ SeqToSet(S) : Occurrences(new.tags, t) = 1
            /\ SeqToSet(T) \subseteq SeqToSet(S) => examples' = examples
            /\ responses'[1].body = exampleBody(new)

IntegerValues ==
    {[text |-> <<"5">>, v |-> 5], [text |-> <<"0">>, v |-> 0],
     [text |-> <<"-", "1">>, v |-> 0 - 1]}

\* The integer v of ?value=v, as a set: empty when the parameter is absent
\* or is no integer.
ValueOf(query) ==
    {i.v : i \in {j \in IntegerValues : Has(query, S_value) /\ Get(query, S_value).s = j.text}}

C23_Increment(query) ==
    IF ValueOf(query) \ {0} # {} THEN CHOOSE v \in ValueOf(query) : TRUE ELSE 1

\* C23, amended, one step: incrementCount on an existing example whose count
\* is c answers 200 with count c + v and stores c + v, every other field and
\* every other example unchanged; or the database fails and nothing changes.
C23_IncrementStep ==
    (AtHandler("incrementCount") /\ exampleFindById(req.params.id) # {}) =>
        LET old == TargetExample
            new == [old EXCEPT !.count = @ + C23_Increment(req.query)]
        IN  IF pc' = "done"
            THEN /\ responses' = <<[status |-> 200, body |-> exampleBody(new)]>>
                 /\ examples' = (examples \ {old}) \cup {new}
            ELSE /\ examples' = examples
                 /\ "dbError" \in SeqToSet(ran')

C24_PriceAndIdOfStored ==
    \A d \in products : d.price >= 0 /\ d.id \in 1..nextId


\* The terminal actions of the handler that took the step: it sent a
\* response, it called next(err), it called next().
StepSent == Len(responses') = Len(responses) + 1
StepNextError == pc' = "error" /\ err' # {} /\ err' # err
StepNext == pc' = "run" /\ chain' = Tail(chain)

StepTerminals ==
    (IF StepSent THEN 1 ELSE 0) + (IF StepNextError THEN 1 ELSE 0)
        + (IF StepNext THEN 1 ELSE 0)

\* C28, one step: a handler that runs does exactly one terminal action; a
\* response is sent only by a handler whose request has none yet, and with
\* it the request is over.
C28_HandlerStep ==
    (ran' # ran) =>
        /\ StepTerminals = 1
        /\ Len(responses') <= 1
        /\ StepSent <=> pc' = "done"
        /\ pc \in {"run", "error"}

C30_ListenAfterConnect ==
    /\ server.listens <= 1
    /\ server.listens = 1 => server.connected
    /\ server.pc = "listening" => server.listens = 1
    /\ (server.pc = "exited" /\ ~server.connected) =>
            server.exitCode = {1} /\ server.listens = 0
    /\ (pc # "idle" \/ responses # <<>>) =>
            server.connected /\ server.listens = 1 /\ server.exitCode = {}

\* C30, steps: the listener is started by a step from a connected process,
\* and a process that has exited takes no step.
C30_StartStep ==
    /\ server.pc # "exited"
    /\ server'.listens # server.listens => server.connected /\ server.pc = "connected"

\* C30: at startup the HTTP listener is started only after the database
\* connection has been established, and at most once; when connecting
\* fails the process exits with code 1 and never listens, so no request is
\* served by a process without the connection made at startup.
C30_ListenOnlyAfterConnect == [](C30_ListenAfterConnect) /\ [][C30_StartStep]_vars

\* The process connected, listens, and has answered a health request.
C30_Witness ==
    /\ Sent
    /\ ran = <<"health">>
    /\ server.pc = "listening"
    /\ server.connected


\* The sum of the increments of the clients 1..n whose request on the
\* record with this id has been answered 200.
RECURSIVE SumAnswered(_, _)
SumAnswered(n, id) ==
    IF n = 0 THEN 0
    ELSE SumAnswered(n - 1, id)
         + (IF flights[n].status = 200 /\ flights[n].id = id
            THEN C23_Increment(flights[n].query) ELSE 0)

\* C26, the end of a run: when every request has been answered, the count
\* of the record is its initial count plus the sum of the increments of the
\* requests answered 200, whatever the order of the database calls.
C26_FinalCount ==
    (\A i \in Clients : flights[i].pc = "done") =>
        /\ \E d \in examples :
              /\ d.id = 1
              /\ d.count = CatalogueExample(1).count + SumAnswered(MaxFlights, ObjectId(1))
              /\ [d EXCEPT !.count = CatalogueExample(1).count] = CatalogueExample(1)
        /\ Cardinality(examples) = 1

\* C26, no waiting: a request whose database call is pending can have it
\* executed, and a request whose call has settled can be answered, whatever
\* state the other requests are in.
C26_NoWaiting ==
    \A i \in Clients :
        /\ flights[i].pc = "awaiting" => ENABLED incrementCountUpdate(i)
        /\ flights[i].pc = "settled" => ENABLED incrementCountRespond(i)

\* C26: concurrent increment requests on the same example are each applied
\* as one atomic update (no lost update), and no request waits for another.
C26_AtomicIncrements == C26_FinalCount /\ C26_NoWaiting

\* Two requests in flight side by side, with the values 5 and -1, have both
\* been answered 200: the count went from 1 to 5.
C26_Witness ==
    /\ flights[1].pc = "done" /\ flights[1].status = 200
    /\ flights[2].pc = "done" /\ flights[2].status = 200
    /\ ValueOf(flights[1].query) = {5}
    /\ ValueOf(flights[2].query) = {0 - 1}
    /\ \E d \in examples : d.id = 1 /\ d.count = 5


\* The registrations that got as far as the insert.
Registering == {i \in Clients : flights[i].doc # {}}

RegisteredDoc(i) == CHOOSE d \in flights[i].doc : TRUE

\* One step of the registrations: stored users stay as they are, and an
\* insert whose email is stored already adds nothing and does not succeed.
C21_RegisterStep ==
    /\ users \subseteq users'
    /\ \A i \in Clients :
          (flights[i].pc = "saving" /\ flights'[i].pc = "settled"
           /\ \E u \in users : u.email = RegisteredDoc(i).email)
              => (users' = users /\ flights'[i].result # "created")

\* The stored users and the answers: emails are unique, a registration that
\* did not create its record is answered with an error status and its
\* record is not stored, and two registrations that succeeded differ in
\* their emails.
C21_EmailsUnique ==
    /\ \A u, v \in users : u.email = v.email => u = v
    /\ \A i \in Clients :
          flights[i].pc = "done" =>
             IF flights[i].result = "created"
             THEN flights[i].status = 201 /\ RegisteredDoc(i) \in users
             ELSE /\ flights[i].status >= 400
                  /\ \A u \in users : u.id # NewUserId(i)
    /\ \A i, j \in Clients :
          (i # j /\ flights[i].result = "created" /\ flights[j].result = "created")
              => RegisteredDoc(i).email # RegisteredDoc(j).email

\* C21: after any sequence or interleaving of registration requests no two
\* stored users have the same email; a registration whose email is stored
\* already fails with an error response, creates no record and leaves the
\* stored records unchanged; of two concurrent registrations with the same
\* email at most one succeeds.
C21_UniqueEmail == [](C21_EmailsUnique) /\ [][C21_RegisterStep]_vars

\* Two registrations with the same email were both at the insert; one was
\* stored, the other was refused and answered with status 500.
C21_Witness ==
    \E i, j \in Clients :
        /\ i # j
        /\ flights[i].result = "created" /\ flights[i].pc = "done"
        /\ flights[j].result = "duplicate" /\ flights[j].pc = "done"
        /\ flights[j].status = 500
        /\ RegisteredDoc(i).email = RegisteredDoc(j).email
        /\ RegisteredDoc(i) \in users


\* The user records a response carries.
SentUsers ==
    UNION {IF "data" \in DOMAIN responses[k].body THEN responses[k].body.data ELSE {} :
              k \in 1..Len(responses)}

\* C22: in every reachable state no stored user record holds a raw password,
\* only the salted hash the pre('save') hook wrote, and the password field,
\* raw or hashed, is no part of the user record that protect attaches to a
\* request or that a default query returns.
C22_PasswordNeverRaw ==
    /\ \A u \in users : IsBcryptHash(u.password) /\ u.password \notin RawPasswords
    /\ \A u \in req.user : "password" \notin DOMAIN u
    /\ \A u \in SentUsers : "password" \notin DOMAIN u

\* A client registered with the password 'secret', its record is stored with
\* a hash, protect attached the record to a later request and getMe sent
\* what a default query returned for it.
C22_Witness ==
    /\ \E i \in Clients :
          /\ flights[i].result = "created"
          /\ TextOf(flights[i].fields, S_password) = P_secret
          /\ \E u \in users : u.id = NewUserId(i) /\ u.password # P_secret
          /\ \E u \in req.user : u.id = NewUserId(i)
          /\ \E u \in SentUsers : u.id = NewUserId(i)
    /\ pc = "done"
    /\ responses[1].status = 200

====
